---- MODULE Spec2Model ----
(***************************************************************************)
(* english-to-cron: the scanner (tokens.rs), the token classifier and the  *)
(* twelve per-kind processors (action/*.rs) and the driver Cron::new       *)
(* (cron.rs), as a state machine over parse calls.                         *)
(*                                                                         *)
(* Text is modelled by TLA+ strings; the regular expressions of the source *)
(* are kept as syntax trees and matched by a leftmost-first backtracking   *)
(* matcher, so that anchors, case flags and alternation order are those of *)
(* the source patterns.                                                    *)
(***************************************************************************)
EXTENDS Integers, Sequences, FiniteSets, TLC

(***************************************************************************)
(* Strings                                                                 *)
(***************************************************************************)
Char(s, i) == SubSeq(s, i, i)

UpperChars == "ABCDEFGHIJKLMNOPQRSTUVWXYZ"

LowerChars == "abcdefghijklmnopqrstuvwxyz"

Digits == {"0", "1", "2", "3", "4", "5", "6", "7", "8", "9"}

IsDigit(c) == c \in Digits

LowerOf ==
    [c \in {Char(UpperChars, k) : k \in 1..Len(UpperChars)} |->
        Char(LowerChars, CHOOSE k \in 1..Len(UpperChars) : Char(UpperChars, k) = c)]

UpperOf ==
    [c \in {Char(LowerChars, k) : k \in 1..Len(LowerChars)} |->
        Char(UpperChars, CHOOSE k \in 1..Len(LowerChars) : Char(LowerChars, k) = c)]

LowerChar(c) == IF c \in DOMAIN LowerOf THEN LowerOf[c] ELSE c

UpperChar(c) == IF c \in DOMAIN UpperOf THEN UpperOf[c] ELSE c

RECURSIVE to_lowercase(_)
to_lowercase(s) ==
    IF s = "" THEN "" ELSE LowerChar(Char(s, 1)) \o to_lowercase(Tail(s))

RECURSIVE to_uppercase(_)
to_uppercase(s) ==
    IF s = "" THEN "" ELSE UpperChar(Char(s, 1)) \o to_uppercase(Tail(s))

StartsWithAt(s, i, w) ==
    /\ i + Len(w) - 1 <= Len(s)
    /\ SubSeq(s, i, i + Len(w) - 1) = w

contains(s, w) == \E i \in 1..(Len(s) + 1) : StartsWithAt(s, i, w)

RECURSIVE replace(_, _, _)
replace(s, from, to) ==
    IF Len(s) < Len(from) THEN s
    ELSE IF StartsWithAt(s, 1, from)
         THEN to \o replace(SubSeq(s, Len(from) + 1, Len(s)), from, to)
         ELSE Char(s, 1) \o replace(Tail(s), from, to)

RECURSIVE trim_start(_)
trim_start(s) ==
    IF s # "" /\ Char(s, 1) = " " THEN trim_start(Tail(s)) ELSE s

RECURSIVE trim_end(_)
trim_end(s) ==
    IF s # "" /\ Char(s, Len(s)) = " " THEN trim_end(SubSeq(s, 1, Len(s) - 1)) ELSE s

trim(s) == trim_end(trim_start(s))

RECURSIVE trim_end_matches(_, _)
trim_end_matches(s, c) ==
    IF s # "" /\ Char(s, Len(s)) = c
    THEN trim_end_matches(SubSeq(s, 1, Len(s) - 1), c)
    ELSE s

(***************************************************************************)
(* Numbers: str::parse::<i32> and i32::to_string                           *)
(***************************************************************************)
I32Max == 2147483647

DigitVal(c) == CHOOSE d \in 0..9 : ToString(d) = c

None == [none |-> TRUE]

Some(v) == [none |-> FALSE, v |-> v]

\* Fold of the decimal digits of s into acc; None as soon as the value
\* would exceed i32::MAX (checked_mul / checked_add in the standard parser).
RECURSIVE ParseAcc(_, _)
ParseAcc(s, acc) ==
    IF s = "" THEN Some(acc)
    ELSE LET d == DigitVal(Char(s, 1))
         IN  IF acc > (I32Max - d) \div 10 THEN None
             ELSE ParseAcc(Tail(s), acc * 10 + d)

\* A parser that stops at the digit that would exceed i32::MAX and returns
\* the digits read so far.
RECURSIVE ParseAccTruncating(_, _)
ParseAccTruncating(s, acc) ==
    IF s = "" THEN Some(acc)
    ELSE LET d == DigitVal(Char(s, 1))
         IN  IF acc > (I32Max - d) \div 10 THEN Some(acc)
             ELSE ParseAccTruncating(Tail(s), acc * 10 + d)

parse_i32_truncating(s) ==
    IF s = "" \/ \E i \in 1..Len(s) : ~IsDigit(Char(s, i)) THEN None
    ELSE ParseAccTruncating(s, 0)

parse_i32(s) ==
    IF s = "" \/ \E i \in 1..Len(s) : ~IsDigit(Char(s, i)) THEN None
    ELSE ParseAcc(s, 0)

(***************************************************************************)
(* Regular expressions (crate regex: leftmost-first, greedy quantifiers)   *)
(***************************************************************************)
Lit(w) == [t |-> "lit", w |-> w]

Dig == [t |-> "dig"]

Bol == [t |-> "bol"]

Eol == [t |-> "eol"]

Cat(xs) == [t |-> "cat", xs |-> xs]

Alt(xs) == [t |-> "alt", xs |-> xs]

Opt(x) == [t |-> "opt", x |-> x]

Plus(x) == [t |-> "plus", x |-> x]

Star(x) == Opt(Plus(x))

\* An alternation of literal words, in the order written.
Words(ws) == [t |-> "words", ws |-> ws]

\* Compile(re, ci) prepares a pattern for matching: under (?i) the literals
\* are lower-cased (they are compared with the lower-cased subject), and every
\* node gets n, whether it can match the empty string, and f, the characters
\* a non-empty match of it can start with.
RECURSIVE Compile(_, _)
Compile(re, ci) ==
    LET Low(w) == IF ci THEN to_lowercase(w) ELSE w
    IN  CASE re.t = "lit" ->
               [t |-> "lit", w |-> Low(re.w), n |-> re.w = "", f |-> {Char(Low(re.w), 1)}]
          [] re.t = "words" ->
               [t |-> "words", ws |-> [k \in 1..Len(re.ws) |-> Low(re.ws[k])], n |-> FALSE,
                f |-> {Char(Low(re.ws[k]), 1) : k \in 1..Len(re.ws)}]
          [] re.t = "dig" -> [t |-> "dig", n |-> FALSE, f |-> Digits]
          [] re.t \in {"bol", "eol"} -> [t |-> re.t, n |-> TRUE, f |-> {}]
          [] re.t = "cat" ->
               LET xs == [k \in 1..Len(re.xs) |-> Compile(re.xs[k], ci)]
               IN  [t |-> "cat", xs |-> xs,
                    n |-> \A k \in 1..Len(xs) : xs[k].n,
                    f |-> UNION {xs[k].f : k \in {j \in 1..Len(xs) :
                                                   \A h \in 1..(j - 1) : xs[h].n}}]
          [] re.t = "alt" ->
               LET xs == [k \in 1..Len(re.xs) |-> Compile(re.xs[k], ci)]
               IN  [t |-> "alt", xs |-> xs,
                    n |-> \E k \in 1..Len(xs) : xs[k].n,
                    f |-> UNION {xs[k].f : k \in 1..Len(xs)}]
          [] re.t = "opt" ->
               LET x == Compile(re.x, ci) IN [t |-> "opt", x |-> x, n |-> TRUE, f |-> x.f]
          [] re.t = "plus" ->
               LET x == Compile(re.x, ci) IN [t |-> "plus", x |-> x, n |-> x.n, f |-> x.f]

\* ci: the pattern starts with (?i)
Rx(ci, re) == [ci |-> ci, re |-> Compile(re, ci)]

\* Keeps the first occurrence of every element, in order.
RECURSIVE Dedup(_)
Dedup(es) ==
    IF Len(es) <= 1 THEN es
    ELSE LET rest == Dedup(SubSeq(es, 1, Len(es) - 1))
             e == es[Len(es)]
         IN  IF \E k \in 1..Len(rest) : rest[k] = e THEN rest ELSE Append(rest, e)

\* Ends(re, k, s, starts), for one start position i: the positions just after
\* every match of re that starts at position i of s, in the order the
\* backtracking matcher tries them, so that the head is the leftmost-first
\* match.  For a concatenation or an alternation k is the part the matcher
\* is at.  For several start positions: the ends from each of them in turn.
\* s is already lower-cased for (?i).
RECURSIVE Ends(_, _, _, _)
Ends(re, k, s, starts) ==
    IF starts = <<>> THEN <<>>
    ELSE IF Len(starts) > 1
    THEN Dedup(Ends(re, k, s, <<Head(starts)>>) \o Ends(re, k, s, Tail(starts)))
    ELSE
    LET i == starts[1]
    IN  IF k = 1 /\ ~re.n /\ (i > Len(s) \/ Char(s, i) \notin re.f) THEN <<>>
        ELSE
        CASE re.t = "words" ->
                LET hit == SelectSeq(re.ws, LAMBDA w : StartsWithAt(s, i, w))
                IN  Dedup([j \in 1..Len(hit) |-> i + Len(hit[j])])
          [] re.t = "lit"  -> IF StartsWithAt(s, i, re.w) THEN <<i + Len(re.w)>> ELSE <<>>
          [] re.t = "dig"  -> IF i <= Len(s) /\ IsDigit(Char(s, i)) THEN <<i + 1>> ELSE <<>>
          [] re.t = "bol"  -> IF i = 1 THEN <<i>> ELSE <<>>
          [] re.t = "eol"  -> IF i = Len(s) + 1 THEN <<i>> ELSE <<>>
          [] re.t = "cat"  ->
                \* part k from i, then the parts after it from each of its ends
                IF k > Len(re.xs) THEN <<i>>
                ELSE Ends(re, k + 1, s, Ends(re.xs[k], 1, s, <<i>>))
          [] re.t = "alt"  ->
                \* the alternatives in the order written
                IF k > Len(re.xs) THEN <<>>
                ELSE Dedup(Ends(re.xs[k], 1, s, <<i>>) \o Ends(re, k + 1, s, <<i>>))
          [] re.t = "opt"  -> Dedup(Ends(re.x, 1, s, <<i>>) \o <<i>>)
          [] re.t = "plus" ->
                \* greedy: one repetition, then more of them from each end
                Ends([t |-> "more", plus |-> re, from |-> i, n |-> TRUE, f |-> {}],
                     1, s, Ends(re.x, 1, s, <<i>>))
          [] re.t = "more" ->
                \* a repetition has ended at i: go on if it consumed something,
                \* and only then stop here
                (IF i > re.from THEN Ends(re.plus, 1, s, <<i>>) ELSE <<>>) \o <<i>>

Subject(rx, s) == IF rx.ci THEN to_lowercase(s) ELSE s

MatchesFrom(re, sub, from) == \E i \in from..(Len(sub) + 1) : Ends(re, 1, sub, <<i>>) # <<>>

\* Regex::is_match
is_match(rx, s) == MatchesFrom(rx.re, Subject(rx, s), 1)

\* The first position at or after i where re matches, Len(sub) + 2 if none.
RECURSIVE FirstHit(_, _, _)
FirstHit(re, sub, i) ==
    IF i > Len(sub) + 1 \/ Ends(re, 1, sub, <<i>>) # <<>> THEN i
    ELSE FirstHit(re, sub, i + 1)

\* [start, end) of the leftmost-first match that starts at i
MatchAt(re, sub, i) ==
    IF i > Len(sub) + 1 THEN None
    ELSE Some([start |-> i, end |-> Head(Ends(re, 1, sub, <<i>>))])

\* Regex::find_at: the leftmost-first match at or after from
FindFrom(rx, s, from) == MatchAt(rx.re, Subject(rx, s), FirstHit(rx.re, Subject(rx, s), from))

Slice(s, m) == IF m.none THEN None ELSE Some(SubSeq(s, m.v.start, m.v.end - 1))

\* Regex::find
find(rx, s) == Slice(s, FindFrom(rx, s, 1))

\* Regex::find_iter: the successive non-overlapping matches, as strings
RECURSIVE FindIterFrom(_, _, _)
FindIterFrom(rx, s, from) ==
    IF from > Len(s) + 1 THEN <<>>
    ELSE LET m == FindFrom(rx, s, from)
         IN  IF m.none THEN <<>>
             ELSE <<SubSeq(s, m.v.start, m.v.end - 1)>>
                    \o FindIterFrom(rx, s,
                         IF m.v.end > m.v.start THEN m.v.end ELSE m.v.end + 1)

find_iter(rx, s) == FindIterFrom(rx, s, 1)

(***************************************************************************)
(* tokens.rs: the scanner                                                  *)
(***************************************************************************)
Digits1 == Plus(Dig)

Digits4Plus == Cat(<<Dig, Dig, Dig, Dig, Star(Dig)>>)

\* (?: ?and)?,? ?   the chaining tail of month, day and year runs
ChainTail == <<Opt(Cat(<<Opt(Lit(" ")), Lit("and")>>)), Opt(Lit(",")), Opt(Lit(" "))>>

ScanMonthNames ==
    Words(<<"january", "february", "march", "april", "may", "june", "july",
            "august", "september", "october", "november", "december",
            "jan", "feb", "mar", "apr", "may", "jun", "jul", "aug", "sept",
            "oct", "nov", "dec">>)

ScanDayNames ==
    Words(<<"monday", "tuesday", "wednesday", "thursday", "friday", "saturday",
            "sunday", "weekend", "mon", "tue", "wed", "thu", "fri", "sat", "sun">>)

RE_TOKENS ==
    Rx(TRUE, Alt(<<
        Words(<<"seconds", "second", "secs", "sec">>),
        Alt(<<Cat(<<Lit("hour"), Opt(Lit("s"))>>), Cat(<<Lit("hr"), Opt(Lit("s"))>>)>>),
        Alt(<<Cat(<<Lit("minute"), Opt(Lit("s"))>>), Cat(<<Lit("min"), Opt(Lit("s"))>>),
              Lit("min")>>),
        Plus(Alt(<<Cat(<<Lit("month"), Opt(Lit("s"))>>),
                   Cat(<<ScanMonthNames>> \o ChainTail)>>)),
        Cat(<<Digits1, Words(<<"th", "nd", "rd", "st">>)>>),
        Cat(<<Opt(Cat(<<Digits1, Lit(":")>>)), Digits1, Opt(Lit(" ")),
              Words(<<"am", "pm">>)>>),
        Cat(<<Digits1, Lit(":"), Digits1>>),
        Words(<<"noon", "midnight">>),
        Plus(Alt(<<Cat(<<Lit("day"), Opt(Lit("s"))>>),
                   Cat(<<ScanDayNames>> \o ChainTail)>>)),
        Plus(Cat(<<Digits4Plus>> \o ChainTail)),
        Digits1,
        Lit("only on"),
        Words(<<"to", "through", "ending", "end", "and">>),
        Words(<<"between", "starting", "start">>)
    >>))

RECURSIVE TrimAll(_)
TrimAll(ms) ==
    IF ms = <<>> THEN <<>> ELSE <<trim(Head(ms))>> \o TrimAll(Tail(ms))

\* Tokenizer::run
run(input_string) ==
    LET processed_input == replace(input_string, ", ", " and ")
        processed == IF contains(processed_input, "only on")
                     THEN replace(processed_input, " and only on", " only on")
                     ELSE processed_input
    IN  TrimAll(find_iter(RE_TOKENS, processed))

(***************************************************************************)
(* action/*.rs: the recognizer patterns                                    *)
(***************************************************************************)
frequency_with_RE_MATCH ==
    Rx(FALSE, Cat(<<Bol, Digits1, Words(<<"th", "nd", "rd", "st">>), Eol>>))

RE_NUMERIC_PREFIX == Rx(FALSE, Cat(<<Bol, Digits1>>))

frequency_only_RE_MATCH == Rx(FALSE, Cat(<<Bol, Digits1, Eol>>))

clock_time_RE_MATCH ==
    Rx(TRUE, Alt(<<
        Cat(<<Bol, Opt(Cat(<<Digits1, Lit(":")>>)), Digits1, Star(Lit(" ")),
              Words(<<"AM", "PM">>), Eol>>),
        Cat(<<Bol, Digits1, Lit(":"), Digits1, Eol>>),
        Words(<<"noon", "midnight">>)
    >>))

clock_time_RE_HOUR == Rx(FALSE, Cat(<<Bol, Digits1>>))

RE_MINUTE == Rx(FALSE, Cat(<<Lit(":"), Digits1>>))

RE_NOON_MIDNIGHT == Rx(FALSE, Words(<<"noon", "midnight">>))

DayNames ==
    Words(<<"monday", "tuesday", "wednesday", "thursday", "friday", "saturday",
            "sunday", "WEEKEND", "MON", "TUE", "WED", "THU", "FRI", "SAT", "SUN">>)

day_RE_MATCH ==
    Rx(TRUE, Cat(<<Bol,
                   Alt(<<Words(<<"days", "day">>),
                         Plus(Cat(<<DayNames>> \o ChainTail))>>),
                   Eol>>))

RE_DAY == Rx(TRUE, Cat(<<Bol, Words(<<"day", "days">>), Eol>>))

RE_WEEKDAYS ==
    Rx(TRUE, Words(<<"MON", "TUE", "WED", "THU", "FRI", "SAT", "SUN", "WEEKEND">>))

WEEK_DAYS == <<"MON", "TUE", "WED", "THU", "FRI", "SAT", "SUN">>

seconds_RE_MATCH == Rx(TRUE, Words(<<"seconds", "second", "sec", "secs">>))

RE_SECUND == Rx(FALSE, Cat(<<Bol, Words(<<"seconds", "second", "sec", "secs">>), Eol>>))

minute_RE_MATCH == Rx(TRUE, Words(<<"minutes", "minute", "mins", "min">>))

RE_MINUTES == Rx(TRUE, Cat(<<Bol, Words(<<"minutes", "minute", "mins", "min">>), Eol>>))

hour_RE_MATCH == Rx(TRUE, Words(<<"hour", "hrs", "hours">>))

hour_RE_HOUR == Rx(FALSE, Cat(<<Bol, Words(<<"hour", "hrs", "hours">>), Eol>>))

MonthNames ==
    Words(<<"january", "february", "march", "april", "may", "june", "july",
            "august", "september", "october", "november", "december",
            "JAN", "FEB", "MAR", "APR", "MAY", "JUN", "JUL", "AUG", "SEPT",
            "OCT", "NOV", "DEC">>)

month_RE_MATCH ==
    Rx(TRUE, Cat(<<Bol,
                   Alt(<<Words(<<"months", "month">>),
                         Plus(Cat(<<MonthNames>> \o ChainTail))>>),
                   Eol>>))

RE_MONTH == Rx(TRUE, Cat(<<Bol, Words(<<"month", "months">>), Eol>>))

RE_MONTHS_ABBREVIATION ==
    Rx(TRUE, Words(<<"JAN", "FEB", "MAR", "APR", "MAY", "JUN", "JUL", "AUG", "SEP",
                     "OCT", "NOV", "DEC">>))

MONTHS ==
    <<"JAN", "FEB", "MAR", "APR", "MAY", "JUN", "JUL", "AUG", "SEP", "OCT", "NOV", "DEC">>

year_RE_MATCH ==
    Rx(TRUE, Alt(<<Words(<<"years", "year">>),
                   Plus(Cat(<<Digits4Plus>> \o ChainTail))>>))

RE_YEARS == Rx(TRUE, Cat(<<Bol, Words(<<"years", "year">>), Eol>>))

RE_NUMERIC == Rx(FALSE, Digits1)

RE_YEAR_FORMAT == Rx(FALSE, Cat(<<Bol, Dig, Dig, Dig, Dig, Eol>>))

range_start_RE_MATCH == Rx(TRUE, Words(<<"between", "starting", "start">>))

RE_MATCH_BETWEEN == Rx(TRUE, Lit("between"))

range_end_RE_MATCH == Rx(TRUE, Words(<<"to", "through", "ending", "end", "and">>))

RE_MATCH_AND == Rx(TRUE, Lit("and"))

(***************************************************************************)
(* action/mod.rs: Kind and the classifier                                  *)
(***************************************************************************)
Kind_iterator ==
    <<"FrequencyWith", "FrequencyOnly", "ClockTime", "Day", "Secund", "Minute",
      "Hour", "Month", "Year", "RangeStart", "RangeEnd", "OnlyOn">>

Recognizes(kind, token) ==
    CASE kind = "FrequencyWith" -> is_match(frequency_with_RE_MATCH, token)
      [] kind = "FrequencyOnly" -> is_match(frequency_only_RE_MATCH, token)
      [] kind = "ClockTime"     -> is_match(clock_time_RE_MATCH, token)
      [] kind = "Day"           -> is_match(day_RE_MATCH, token)
      [] kind = "Secund"        -> is_match(seconds_RE_MATCH, token)
      [] kind = "Minute"        -> is_match(minute_RE_MATCH, token)
      [] kind = "Hour"          -> is_match(hour_RE_MATCH, token)
      [] kind = "Month"         -> is_match(month_RE_MATCH, token)
      [] kind = "Year"          -> is_match(year_RE_MATCH, token)
      [] kind = "RangeStart"    -> is_match(range_start_RE_MATCH, token)
      [] kind = "RangeEnd"      -> is_match(range_end_RE_MATCH, token)
      [] kind = "OnlyOn"        -> to_lowercase(token) = "only on"

\* A classifier that returns the last Kind whose recognizer matches.
try_from_token_last_match(token) ==
    LET hits == {k \in 1..Len(Kind_iterator) : Recognizes(Kind_iterator[k], token)}
    IN  IF hits = {} THEN None
        ELSE Some(Kind_iterator[CHOOSE k \in hits : \A j \in hits : k >= j])

\* try_from_token: the first Kind, in iterator order, whose recognizer matches
try_from_token(token) ==
    LET hits == {k \in 1..Len(Kind_iterator) : Recognizes(Kind_iterator[k], token)}
    IN  IF hits = {} THEN None
        ELSE Some(Kind_iterator[CHOOSE k \in hits : \A j \in hits : k <= j])


(***************************************************************************)
(* errors.rs, stack.rs, cron.rs: the data                                  *)
(***************************************************************************)
InvalidInput == [kind |-> "InvalidInput"]

Capture(state, token) == [kind |-> "Capture", state |-> state, token |-> token]

ParseToNumber(state, value) == [kind |-> "ParseToNumber", state |-> state, value |-> value]

IncorrectValue(state, error) == [kind |-> "IncorrectValue", state |-> state, error |-> error]

\* Result<()> of a processor, seen from the driver: the Cron it leaves, the
\* error it returns, or a panic.
Ok(cron) == [tag |-> "ok", cron |-> cron]

Err(e) == [tag |-> "err", err |-> e]

Panic(msg) == [tag |-> "panic", msg |-> msg]

StartEnd(start, end) == [start |-> start, end |-> end]

\* Stack::builder(owner).build(); is_and_connector and is_between_range are
\* the two flags range_end.rs and range_start.rs set.
Stack_builder(owner) ==
    [owner |-> owner, frequency |-> None, frequency_end |-> None,
     frequency_start |-> None, min |-> None, hour |-> None, day |-> None,
     month |-> None, year |-> None, day_of_week |-> None,
     is_and_connector |-> FALSE, is_between_range |-> FALSE]

frequency_to_string(element) ==
    IF element.frequency.none THEN "*" ELSE ToString(element.frequency.v)

unwrap_or_default(o) == IF o.none THEN 0 ELSE o.v

Syntax_default ==
    [seconds |-> "0", min |-> "*", hour |-> "*", day_of_month |-> "*",
     day_of_week |-> "?", month |-> "*", year |-> "*"]

Cron_default == [syntax |-> Syntax_default, stack |-> <<>>]

\* The fields in the order of the struct: day_of_week before month
Display_struct_order(cron) ==
    trim(cron.syntax.seconds) \o " " \o trim(cron.syntax.min) \o " "
      \o trim(cron.syntax.hour) \o " " \o trim(cron.syntax.day_of_month) \o " "
      \o trim(cron.syntax.day_of_week) \o " " \o trim(cron.syntax.month) \o " "
      \o trim(cron.syntax.year)

\* impl Display for Cron
Display(cron) ==
    trim(cron.syntax.seconds) \o " " \o trim(cron.syntax.min) \o " "
      \o trim(cron.syntax.hour) \o " " \o trim(cron.syntax.day_of_month) \o " "
      \o trim(cron.syntax.month) \o " " \o trim(cron.syntax.day_of_week) \o " "
      \o trim(cron.syntax.year)

\* Vec::last, and the Vec after pop, push and an in-place change of the top
last(stack) == IF stack = <<>> THEN None ELSE Some(stack[Len(stack)])

Pop(stack) == IF stack = <<>> THEN stack ELSE SubSeq(stack, 1, Len(stack) - 1)

Push(stack, element) == Append(stack, element)

SetTop(stack, element) == [stack EXCEPT ![Len(stack)] = element]

WithSyntax(cron, field, value) == [cron EXCEPT !.syntax[field] = value]

WithStack(cron, stack) == [cron EXCEPT !.stack = stack]

first(xs) == IF xs = <<>> THEN None ELSE Some(xs[1])

SeqContains(xs, x) == \E k \in 1..Len(xs) : xs[k] = x

RECURSIVE MapUpper(_)
MapUpper(xs) ==
    IF xs = <<>> THEN <<>> ELSE <<to_uppercase(Head(xs))>> \o MapUpper(Tail(xs))

(***************************************************************************)
(* frequency_only.rs, frequency_with.rs                                    *)
(***************************************************************************)
\* A frequency processor that takes the panicking branch whenever the
\* stack holds an entry that is not part of a range.
frequency_only_process_panics(frequency, cron) ==
    IF cron.stack # <<>> /\ last(cron.stack).v.owner \notin {"RangeStart", "RangeEnd"}
    THEN Panic("handle later")
    ELSE Ok(WithStack(cron, Push(cron.stack,
              [Stack_builder("FrequencyOnly") EXCEPT !.frequency = Some(frequency)])))

\* A processor that pushes its entry whatever the stack top is
frequency_only_process_always_pushes(frequency, cron) ==
    Ok(WithStack(cron, Push(cron.stack,
         [Stack_builder("FrequencyOnly") EXCEPT !.frequency = Some(frequency)])))

frequency_only_process(frequency, cron) ==
    LET top == last(cron.stack)
        pushed == Push(cron.stack,
                       [Stack_builder("FrequencyOnly") EXCEPT !.frequency = Some(frequency)])
    IN  IF cron.stack # <<>>
        THEN IF ~top.none
             THEN IF top.v.owner = "RangeEnd"
                  THEN Ok(WithStack(cron, SetTop(cron.stack,
                            [top.v EXCEPT !.frequency_end = Some(frequency)])))
                  ELSE IF top.v.owner = "RangeStart"
                  THEN Ok(WithStack(cron, SetTop(cron.stack,
                            [top.v EXCEPT !.frequency_start = Some(frequency)])))
                  ELSE Ok(WithStack(cron, pushed))
             ELSE Panic("handle later")
        ELSE Ok(WithStack(cron, pushed))

\* Kind::process, arm FrequencyOnly
FrequencyOnly_process(token, cron) ==
    LET frequency == parse_i32(token)
    IN  IF frequency.none THEN Err(ParseToNumber("frequency_only", token))
        ELSE frequency_only_process(frequency.v, cron)

\* An ordinal processor that never finds the numeric prefix.
frequency_with_process_finds_no_prefix(token, cron) ==
    Err(Capture("frequency_with", token))

frequency_with_process(token, cron) ==
    LET maybe_numeric_prefix == find(RE_NUMERIC_PREFIX, token)
        frequency == parse_i32(maybe_numeric_prefix.v)
        top == last(cron.stack)
    IN  IF maybe_numeric_prefix.none THEN Err(Capture("frequency_with", token))
        ELSE IF frequency.none
        THEN Err(ParseToNumber("frequency_with", maybe_numeric_prefix.v))
        ELSE IF ~top.none /\ top.v.owner = "RangeEnd"
        THEN Ok(WithStack(cron, SetTop(cron.stack,
                  [top.v EXCEPT !.frequency_end = Some(frequency.v)])))
        ELSE IF ~top.none /\ top.v.owner = "RangeStart"
        THEN Ok(WithStack(cron, SetTop(cron.stack,
                  [top.v EXCEPT !.frequency_start = Some(frequency.v)])))
        ELSE Ok(WithStack(cron, Push(cron.stack,
                  [Stack_builder("FrequencyWith") EXCEPT
                      !.frequency = Some(frequency.v),
                      !.day_of_week = Some(cron.syntax.day_of_week)])))

(***************************************************************************)
(* seconds.rs, minute.rs, hour.rs                                          *)
(***************************************************************************)
\* A seconds processor that also sets the minute field to "*".
seconds_process_resets_minute(token, cron) ==
    Ok(WithSyntax(WithSyntax(cron, "seconds", "*"), "min", "*"))

seconds_process(token, cron) ==
    LET top == last(cron.stack)
        resolved ==
            IF top.none THEN WithSyntax(cron, "seconds", "*")
            ELSE IF top.v.owner = "FrequencyOnly"
            THEN WithStack(WithSyntax(cron, "seconds", "0/" \o frequency_to_string(top.v)),
                           Pop(cron.stack))
            ELSE IF top.v.owner = "FrequencyWith"
            THEN WithStack(WithSyntax(cron, "seconds", frequency_to_string(top.v)),
                           Pop(cron.stack))
            ELSE cron
    IN  IF is_match(RE_SECUND, token)
        THEN Ok(WithStack(resolved, Push(resolved.stack, Stack_builder("Secund"))))
        ELSE Ok(cron)

\* A processor that resolves a pending frequency and pushes no entry of its
\* own
minute_process_pushes_nothing(token, cron) ==
    IF cron.stack # <<>> /\ last(cron.stack).v.owner = "FrequencyOnly"
    THEN Ok(WithStack(WithSyntax(cron, "min", "0/" \o frequency_to_string(last(cron.stack).v)),
                      Pop(cron.stack)))
    ELSE Ok(cron)

\* In the RangeEnd arm frequency_end is cleared before the pair
\* (frequency_start, frequency_end) is read.
minute_process(token, cron) ==
    LET top == last(cron.stack)
    IN  IF ~is_match(RE_MINUTES, token) THEN Ok(cron)
        ELSE IF top.none THEN Ok(cron)
        ELSE IF top.v.owner = "FrequencyOnly"
        THEN Ok(WithStack(WithSyntax(cron, "min", "0/" \o frequency_to_string(top.v)),
                  Push(Pop(cron.stack),
                       [Stack_builder("Minute") EXCEPT
                           !.min = Some(StartEnd(top.v.frequency, None))])))
        ELSE IF top.v.owner = "FrequencyWith"
        THEN Ok(WithStack(WithSyntax(cron, "min", frequency_to_string(top.v)),
                  Push(Pop(cron.stack),
                       [Stack_builder("Minute") EXCEPT
                           !.min = Some(StartEnd(top.v.frequency, None))])))
        ELSE IF top.v.owner = "RangeStart"
        THEN Ok(WithStack(cron, SetTop(cron.stack,
                  [top.v EXCEPT !.min = Some(StartEnd(top.v.frequency_start, None))])))
        ELSE IF top.v.owner = "RangeEnd"
        THEN LET element == [top.v EXCEPT
                                !.min = Some(StartEnd(top.v.frequency_start,
                                                      top.v.frequency_end)),
                                !.frequency_end = None]
                 written == IF ~element.frequency_start.none /\ ~element.frequency_end.none
                            THEN WithSyntax(cron, "min",
                                   ToString(element.frequency_start.v) \o "-"
                                     \o ToString(element.frequency_end.v))
                            ELSE cron
             IN  Ok(WithStack(written, SetTop(cron.stack, element)))
        ELSE Ok(cron)

\* An hour processor that pushes its entry with owner Hour.
hour_process_pushes_hour(token, cron) ==
    IF ~is_match(hour_RE_HOUR, token) THEN Ok(cron)
    ELSE Ok(WithStack(cron, Push(cron.stack, Stack_builder("Hour"))))

\* hour::process pushes its entry with owner Minute and, inside a range, fills
\* the min slot of the range entry.
\* In the RangeEnd arm frequency_end is cleared before the pair
\* (frequency_start, frequency_end) is read.
hour_process(token, cron) ==
    LET top == last(cron.stack)
    IN  IF ~is_match(hour_RE_HOUR, token) THEN Ok(cron)
        ELSE IF top.none THEN Ok(cron)
        ELSE IF top.v.owner = "FrequencyOnly"
        THEN Ok(WithStack(WithSyntax(cron, "hour", "0/" \o frequency_to_string(top.v)),
                  Push(Pop(cron.stack),
                       [Stack_builder("Minute") EXCEPT
                           !.hour = Some(StartEnd(top.v.frequency, None))])))
        ELSE IF top.v.owner = "FrequencyWith"
        THEN Ok(WithStack(WithSyntax(cron, "hour", frequency_to_string(top.v)),
                  Push(Pop(cron.stack),
                       [Stack_builder("Minute") EXCEPT
                           !.hour = Some(StartEnd(top.v.frequency, None))])))
        ELSE IF top.v.owner = "RangeStart"
        THEN Ok(WithStack(cron, SetTop(cron.stack,
                  [top.v EXCEPT !.min = Some(StartEnd(top.v.frequency_start, None))])))
        ELSE IF top.v.owner = "RangeEnd"
        THEN LET element == [top.v EXCEPT
                                !.min = Some(StartEnd(top.v.frequency_start,
                                                      top.v.frequency_end)),
                                !.frequency_end = None]
                 written == IF ~element.frequency_start.none /\ ~element.frequency_end.none
                            THEN WithSyntax(cron, "hour",
                                   ToString(element.frequency_start.v) \o "-"
                                     \o ToString(element.frequency_end.v))
                            ELSE cron
             IN  Ok(WithStack(written, SetTop(cron.stack, element)))
        ELSE Ok(cron)

(***************************************************************************)
(* clock_time.rs                                                           *)
(***************************************************************************)
Value(v) == [tag |-> "ok", v |-> v]

\* Lines 50-58: the leading digits, 0 when there are none
clock_time_hour(token) ==
    LET hour_str == find(clock_time_RE_HOUR, token)
        hour == parse_i32(hour_str.v)
    IN  IF hour_str.none THEN Value(0)
        ELSE IF hour.none THEN Err(ParseToNumber("clock_time", hour_str.v))
        ELSE Value(hour.v)

\* The minute check with > in place of >=
clock_time_minute_above_60(token) ==
    LET minute_match == find(RE_MINUTE, token)
        minute_str == SubSeq(minute_match.v, 2, Len(minute_match.v))
        minute == parse_i32(minute_str)
    IN  IF minute_match.none THEN Value(0)
        ELSE IF minute.none THEN Err(ParseToNumber("clock_time", minute_str))
        ELSE IF minute.v > 60
        THEN Err(IncorrectValue("clock_time",
                   "minute " \o ToString(minute.v) \o " should be lower or equal to 60"))
        ELSE Value(minute.v)

\* Lines 60-77: the digits after the colon, 0 when there is no colon
clock_time_minute(token) ==
    LET minute_match == find(RE_MINUTE, token)
        \* split(':').nth(1) of ":dd"
        minute_str == SubSeq(minute_match.v, 2, Len(minute_match.v))
        minute == parse_i32(minute_str)
    IN  IF minute_match.none THEN Value(0)
        ELSE IF minute.none THEN Err(ParseToNumber("clock_time", minute_str))
        ELSE IF minute.v >= 60
        THEN Err(IncorrectValue("clock_time",
                   "minute " \o ToString(minute.v) \o " should be lower or equal to 60"))
        ELSE Value(minute.v)

\* The conversion with 12 pm taken for an hour to add 12 to, and 12 am left
clock_time_am_pm_12_unhandled(token, hour) ==
    LET lower == to_lowercase(token)
    IN  IF contains(lower, "pm")
        THEN IF hour <= 12 THEN Value(hour + 12)
             ELSE Err(IncorrectValue("clock_time",
                        "please correct the time before PM. value: " \o ToString(hour)))
        ELSE IF contains(lower, "am")
        THEN IF hour > 12
             THEN Err(IncorrectValue("clock_time",
                        "please correct the time before AM. value: " \o ToString(hour)))
             ELSE Value(hour)
        ELSE Value(hour)

\* Lines 79-105: the 12-hour to 24-hour conversion
clock_time_am_pm(token, hour) ==
    LET lower == to_lowercase(token)
    IN  IF contains(lower, "pm")
        THEN IF hour < 12 THEN Value(hour + 12)
             ELSE IF hour > 12
             THEN Err(IncorrectValue("clock_time",
                        "please correct the time before PM. value: " \o ToString(hour)))
             ELSE Value(hour)
        ELSE IF contains(lower, "am")
        THEN IF hour = 12 THEN Value(0)
             ELSE IF hour > 12
             THEN Err(IncorrectValue("clock_time",
                        "please correct the time before AM. value: " \o ToString(hour)))
             ELSE Value(hour)
        ELSE Value(hour)

\* Lines 47-114: the hour and minute a token stands for, or the first error
clock_time_parse(token) ==
    LET hour == clock_time_hour(token)
        minute == clock_time_minute(token)
        converted == clock_time_am_pm(token, hour.v)
    IN  IF hour.tag # "ok" THEN hour
        ELSE IF minute.tag # "ok" THEN minute
        ELSE IF converted.tag # "ok" THEN converted
        ELSE IF is_match(RE_NOON_MIDNIGHT, token)
        THEN [tag |-> "ok", hour |-> IF token = "noon" THEN 12 ELSE 0, minute |-> 0]
        ELSE [tag |-> "ok", hour |-> converted.v, minute |-> minute.v]

\* A clock time that writes its minute and hour whatever the stack holds.
clock_time_apply_writes_minute(hour, minute, cron) ==
    Ok(WithSyntax(WithSyntax(cron, "min", ToString(minute)), "hour", ToString(hour)))

\* Lines 116-158: what the parsed time does to the Cron.
clock_time_apply(hour, minute, cron) ==
    LET top == last(cron.stack)
    IN  IF ~top.none /\ top.v.owner = "RangeStart"
        THEN Ok(WithStack(cron, SetTop(cron.stack,
                  [top.v EXCEPT !.hour = Some(StartEnd(Some(hour), None))])))
        ELSE IF ~top.none /\ top.v.owner = "RangeEnd"
        THEN IF top.v.hour.none THEN Ok(cron)
             ELSE IF top.v.hour.v.start = Some(hour)
             THEN Ok(WithStack(
                       WithSyntax(cron, "hour", ToString(hour) \o "-" \o ToString(hour)),
                       SetTop(cron.stack,
                              [top.v EXCEPT !.min = Some(StartEnd(Some(hour), Some(hour)))])))
             ELSE Ok(WithSyntax(cron, "hour",
                       ToString(unwrap_or_default(top.v.hour.v.start))
                         \o "-" \o ToString(hour)))
        ELSE Ok(WithStack(
                  WithSyntax(WithSyntax(cron, "min", ToString(minute)),
                             "hour", ToString(hour)),
                  Push(cron.stack,
                       [Stack_builder("ClockTime") EXCEPT
                           !.hour = Some(StartEnd(Some(hour), None)),
                           !.min = Some(StartEnd(Some(minute), None))])))

\* The ? of lines 50-77 and the returns of lines 82-101: an error leaves
\* the Cron as it was
clock_time_write(time, cron) ==
    IF time.tag = "ok" THEN clock_time_apply(time.hour, time.minute, cron)
    ELSE time

clock_time_process(token, cron) == clock_time_write(clock_time_parse(token), cron)


(***************************************************************************)
(* day.rs                                                                  *)
(***************************************************************************)
\* The loop over WEEK_DAYS (and over SAT, SUN for WEEKEND): appends "DAY,"
\* for every canonical name that is among the wanted ones and not yet
\* contained in the text built so far.
RECURSIVE AppendListed(_, _, _)
AppendListed(text, canon, wanted) ==
    IF canon = <<>> THEN text
    ELSE AppendListed(
           IF SeqContains(wanted, Head(canon)) /\ ~contains(text, Head(canon))
           THEN text \o Head(canon) \o "," ELSE text,
           Tail(canon), wanted)

\* A day processor that keeps the entries of the stack and pushes its Day
\* entry on top of them.
day_process_keeps_stack(token, cron) ==
    LET c1 == WithSyntax(WithSyntax(cron, "day_of_week", "MON"), "day_of_month", "?")
    IN  Ok(WithStack(c1, Push(c1.stack,
              [Stack_builder("Day") EXCEPT !.day_of_week = Some(c1.syntax.day_of_week)])))

\* A day processor that ignores the stack: day_of_month is always "*/1".
day_process_ignores_stack(token, cron) ==
    Ok(WithSyntax(WithSyntax(cron, "day_of_week", "?"), "day_of_month", "*/1"))

day_process(token, cron) ==
    LET top == last(cron.stack)
        PushDay(c) ==
            WithStack(c, Push(c.stack,
                [Stack_builder("Day") EXCEPT !.day_of_week = Some(c.syntax.day_of_week)]))
    IN  IF is_match(RE_DAY, token)
        THEN LET c1 == WithSyntax(cron, "day_of_week", "?")
                 c2 == IF c1.syntax.min = "*" THEN WithSyntax(c1, "min", "0") ELSE c1
                 c3 == IF c2.syntax.hour = "*" THEN WithSyntax(c2, "hour", "0") ELSE c2
                 c4 == IF top.none THEN WithSyntax(c3, "day_of_month", "*/1")
                       ELSE IF top.v.owner = "FrequencyOnly"
                       THEN WithStack(WithSyntax(c3, "day_of_month",
                                                 "*/" \o frequency_to_string(top.v)),
                                      Pop(c3.stack))
                       ELSE IF top.v.owner = "FrequencyWith"
                       THEN WithStack(WithSyntax(c3, "day_of_month",
                                                 frequency_to_string(top.v)),
                                      Pop(c3.stack))
                       ELSE WithSyntax(c3, "day_of_month", "*")
             IN  Ok(PushDay(c4))
        ELSE
        LET matches == find_iter(RE_WEEKDAYS, token)
            days == MapUpper(matches)
            c1 == WithSyntax(cron, "day_of_week", "")
        IN  IF matches = <<>>
            THEN Err(IncorrectValue("day", "value " \o token \o " is not a weekend format"))
            ELSE IF ~top.none /\ top.v.owner = "RangeStart"
            THEN Ok(WithStack(c1, SetTop(c1.stack,
                      [top.v EXCEPT !.day =
                          Some(StartEnd(first(days),
                                        IF top.v.day.none THEN None ELSE top.v.day.v.end))])))
            ELSE IF ~top.none /\ top.v.owner = "RangeEnd"
            THEN LET data == StartEnd(IF top.v.day.none THEN None ELSE top.v.day.v.start,
                                      first(days))
                     c2 == IF ~data.start.none /\ ~data.end.none
                           THEN WithSyntax(c1, "day_of_week",
                                  c1.syntax.day_of_week \o data.start.v \o "-" \o data.end.v)
                           ELSE c1
                 IN  Ok(WithStack(WithSyntax(c2, "day_of_month", "?"), Pop(c2.stack)))
            ELSE IF ~top.none /\ top.v.owner = "OnlyOn"
            THEN IF first(days).none
                 THEN Err(IncorrectValue("day",
                        "Expected at least one day in 'only on' syntax but found none"))
                 ELSE Ok(WithStack(
                        WithSyntax(WithSyntax(c1, "day_of_week", first(days).v),
                                   "day_of_month", "?"),
                        Pop(c1.stack)))
            ELSE
            LET c2 == IF top.none THEN c1 ELSE WithStack(c1, <<>>)
                listed == AppendListed(c2.syntax.day_of_week, WEEK_DAYS, days)
                weekend == IF SeqContains(days, "WEEKEND")
                           THEN AppendListed(listed, <<"SAT", "SUN">>, <<"SAT", "SUN">>)
                           ELSE listed
                c3 == WithSyntax(WithSyntax(c2, "day_of_week", trim_end_matches(weekend, ",")),
                                 "day_of_month", "?")
            IN  Ok(PushDay(c3))

(***************************************************************************)
(* month.rs                                                                *)
(***************************************************************************)
\* A month processor that ignores the stack: the month field becomes "*".
month_process_ignores_stack(token, cron) ==
    Ok(WithSyntax(cron, "month", "*"))

month_process(token, cron) ==
    LET top == last(cron.stack)
        PushMonth(c) ==
            WithStack(c, Push(c.stack,
                [Stack_builder("Month") EXCEPT
                    !.month = Some(StartEnd(Some(c.syntax.month), None))]))
    IN  IF is_match(RE_MONTH, token)
        THEN LET c1 == IF top.none THEN WithSyntax(cron, "month", "*")
                       ELSE IF top.v.owner \in {"FrequencyOnly", "FrequencyWith"}
                       THEN WithStack(WithSyntax(cron, "month", frequency_to_string(top.v)),
                                      Pop(cron.stack))
                       ELSE IF top.v.owner = "RangeEnd"
                       THEN WithSyntax(cron, "day_of_month",
                              ToString(unwrap_or_default(top.v.frequency_start)) \o ","
                                \o ToString(unwrap_or_default(top.v.frequency_end)))
                       ELSE WithSyntax(cron, "month", "*")
             IN  Ok(PushMonth(c1))
        ELSE
        LET matches == find_iter(RE_MONTHS_ABBREVIATION, token)
            months == MapUpper(matches)
            c1 == WithSyntax(cron, "month", "")
        IN  IF matches = <<>>
            THEN Err(IncorrectValue("month", "value " \o token \o " is not a month format"))
            ELSE IF ~top.none /\ top.v.owner = "RangeStart"
            THEN \* the entry is given its month start and then popped
                 Ok(WithStack(c1, Pop(c1.stack)))
            ELSE IF ~top.none /\ top.v.owner = "RangeEnd"
            THEN LET c2 == IF ~top.v.frequency_end.none
                           THEN LET c21 == WithSyntax(c1, "day_of_week", "?")
                                IN  IF ~top.v.frequency_start.none
                                    THEN WithSyntax(c21, "day_of_month",
                                           ToString(top.v.frequency_start.v) \o "-"
                                             \o ToString(top.v.frequency_end.v))
                                    ELSE c21
                           ELSE c1
                     data == StartEnd(IF top.v.month.none THEN None ELSE top.v.month.v.start,
                                      first(months))
                     c3 == IF ~data.start.none /\ ~data.end.none
                           THEN WithSyntax(c2, "month", data.start.v \o "-" \o data.end.v)
                           ELSE c2
                 IN  Ok(WithStack(c3, Pop(c3.stack)))
            ELSE
            LET c2 == IF top.none THEN c1
                      ELSE IF top.v.owner \in {"FrequencyOnly", "FrequencyWith"}
                      THEN WithStack(WithSyntax(c1, "day_of_month", frequency_to_string(top.v)),
                                     Pop(c1.stack))
                      ELSE WithStack(c1, Pop(c1.stack))
                listed == AppendListed(c2.syntax.month, MONTHS, months)
            IN  Ok(PushMonth(WithSyntax(c2, "month", trim_end_matches(listed, ","))))

(***************************************************************************)
(* year.rs                                                                 *)
(***************************************************************************)
\* The matches of RE_NUMERIC that are exactly four digits, as numbers.
RECURSIVE FourDigitYears(_)
FourDigitYears(matches) ==
    IF matches = <<>> THEN <<>>
    ELSE (IF is_match(RE_YEAR_FORMAT, Head(matches)) /\ ~parse_i32(Head(matches)).none
          THEN <<parse_i32(Head(matches)).v>> ELSE <<>>)
           \o FourDigitYears(Tail(matches))

RECURSIVE JoinYears(_, _)
JoinYears(text, years) ==
    IF years = <<>> THEN text
    ELSE JoinYears(text \o ToString(Head(years)) \o ",", Tail(years))

year_process(token, cron) ==
    LET top == last(cron.stack)
        PushYear(c) == WithStack(c, Push(c.stack, Stack_builder("Year")))
    IN  IF is_match(RE_YEARS, token)
        THEN LET c1 == WithSyntax(cron, "year", "?")
                 c2 == IF top.none THEN c1
                       ELSE IF top.v.owner = "FrequencyOnly"
                       THEN WithStack(WithSyntax(c1, "year", "0/" \o frequency_to_string(top.v)),
                                      Pop(c1.stack))
                       ELSE IF top.v.owner = "FrequencyWith"
                       THEN WithSyntax(c1, "year", frequency_to_string(top.v))
                       ELSE WithSyntax(c1, "year", "*")
             IN  Ok(PushYear(c2))
        ELSE
        LET years == FourDigitYears(find_iter(RE_NUMERIC, token))
        IN  IF ~top.none /\ top.v.owner = "RangeStart"
            THEN Ok(WithStack(cron, SetTop(cron.stack,
                      [top.v EXCEPT !.year =
                          Some(StartEnd(first(years),
                                        IF top.v.year.none THEN None ELSE top.v.year.v.end))])))
            ELSE IF ~top.none /\ top.v.owner = "RangeEnd"
            THEN LET year == StartEnd(IF top.v.year.none THEN None ELSE top.v.year.v.start,
                                      first(years))
                 IN  Ok(WithStack(
                        WithSyntax(cron, "year",
                          ToString(unwrap_or_default(year.start)) \o "-"
                            \o ToString(unwrap_or_default(year.end))),
                        Pop(cron.stack)))
            ELSE IF years = <<>>
            THEN Err(IncorrectValue("year", "value " \o token \o " is not a year format"))
            ELSE Ok(PushYear(WithSyntax(cron, "year",
                      trim_end_matches(JoinYears("", years), ","))))

(***************************************************************************)
(* range_start.rs, range_end.rs                                            *)
(***************************************************************************)
range_start_process(token, cron) ==
    Ok(WithStack(cron, Push(cron.stack,
         [Stack_builder("RangeStart") EXCEPT
             !.is_between_range = is_match(RE_MATCH_BETWEEN, token)])))

\* A processor that pushes a RangeEnd entry of its own instead of turning
\* the top entry into one
range_end_process_pushes(token, cron) ==
    Ok(WithStack(cron, Push(cron.stack, Stack_builder("RangeEnd"))))

range_end_process(token, cron) ==
    LET top == last(cron.stack)
        is_and == is_match(RE_MATCH_AND, token)
        e1 == [top.v EXCEPT !.is_and_connector = is_and]
        e2 == IF e1.owner \in {"FrequencyWith", "FrequencyOnly"}
              THEN [e1 EXCEPT !.frequency_start = e1.frequency]
              ELSE IF e1.owner = "Day"
              THEN [e1 EXCEPT !.day =
                       Some(StartEnd(e1.day_of_week,
                                     IF e1.day.none THEN None ELSE e1.day.v.end))]
              ELSE e1
    IN  IF top.none THEN Ok(cron)
        ELSE Ok(WithStack(cron, SetTop(cron.stack, [e2 EXCEPT !.owner = "RangeEnd"])))

(***************************************************************************)
(* action/mod.rs: Kind::process                                            *)
(***************************************************************************)
Kind_process(kind, token, cron) ==
    CASE kind = "FrequencyWith" -> frequency_with_process(token, cron)
      [] kind = "FrequencyOnly" -> FrequencyOnly_process(token, cron)
      [] kind = "ClockTime"     -> clock_time_process(token, cron)
      [] kind = "Day"           -> day_process(token, cron)
      [] kind = "Secund"        -> seconds_process(token, cron)
      [] kind = "Minute"        -> minute_process(token, cron)
      [] kind = "Hour"          -> hour_process(token, cron)
      [] kind = "Month"         -> month_process(token, cron)
      [] kind = "Year"          -> year_process(token, cron)
      [] kind = "RangeStart"    -> range_start_process(token, cron)
      [] kind = "RangeEnd"      -> range_end_process(token, cron)
      [] kind = "OnlyOn"        -> Ok(cron)

(***************************************************************************)
(* Inputs                                                                  *)
(***************************************************************************)
\* Longest sentence built from FreeWords
MaxWords == 3

\* Largest leading hour of the generated clock tokens
MaxHour == 13

\* Largest small frequency of the generated "N unit" phrases
MaxNum == 2

\* Sentences of the repository's tests, examples and documentation.
Examples ==
    {"every 15 seconds", "every minute", "every day at 4:00 pm", "at 10:00 am",
     "Run every 15 minutes", "Run every 5 minutes",
     "Run at midnight on the 1st and 15th of the month", "on Sunday at 12:00",
     "Every 15 seconds, only on Friday",
     "Run at 6:00 pm every Monday through Friday",
     "every 3rd day at 2:55 am from January to August in 2019 and 2020",
     "Run every 5 minutes Monday through Friday between 8:00 am and 5:55 pm",
     "Run every 6 hours, starting at 1:00 pm on Monday",
     "Run every 10 hours", "Run every 3 hours only on the last day of the month",
     "every year"}

\* Texts in which the scanner finds nothing.
NoTokenTexts == {"", " ", "run", "please run it"}

RECURSIVE Join(_)
Join(ws) ==
    IF ws = <<>> THEN ""
    ELSE IF Len(ws) = 1 THEN ws[1]
    ELSE ws[1] \o " " \o Join(Tail(ws))

SeqsUpTo(S, n) == UNION {[1..k -> S] : k \in 0..n}

FreeWords == {"between", "and", "monday", "january", "15", "minutes", "8:75", "3rd"}

FreeTexts == {Join(ws) : ws \in SeqsUpTo(FreeWords, MaxWords)}

\* Clock tokens: hour digits, optional minute part, optional am/pm suffix.
\* The eleven-digit strings do not fit an i32.
HourStrs == {ToString(h) : h \in 0..MaxHour} \cup {"99999999999"}

MinuteParts == {"", ":05", ":59", ":60", ":99999999999"}

Suffixes == {"", " am", "pm", " PM"}

ClockContexts ==
    {"", "every 5 ", "between ", "between 9:30 am and ", "between and ", "monday ", "3rd "}

ClockTexts ==
    {p \o h \o m \o s : p \in ClockContexts, h \in HourStrs, m \in MinuteParts, s \in Suffixes}

\* A number followed by a unit word, in the spellings the scanner accepts.
NumStrs == {ToString(n) : n \in 0..MaxNum} \cup {"15", "99999999999"}

UnitWords ==
    {"seconds", "second", "secs", "sec", "minutes", "minute", "mins", "min",
     "hours", "hour", "hrs", "hr", "SECONDS", "Minutes", "Hours"}

UnitContexts == {"", "every ", "between ", "monday ", "3rd "}

UnitTexts ==
    {p \o n \o " " \o u \o s :
        p \in UnitContexts, n \in NumStrs, u \in UnitWords, s \in {"", " on monday"}}

\* range-start word, clock time, range-end word, clock time
RangeStartWords == {"between", "starting", "start"}

RangeEndWords == {"to", "through", "ending", "end", "and"}

RangeClocks == {"8:00 am", "5:55 pm", "12 am", "noon", "Noon", "23:15"}

RangeTexts ==
    {s \o " " \o t1 \o " " \o e \o " " \o t2 :
        s \in RangeStartWords, t1 \in RangeClocks, e \in RangeEndWords, t2 \in RangeClocks}

\* Weekday tokens and month tokens, alone, in lists with repetitions and
\* out of order, after every kind of stack top.
DayTokens ==
    {"friday", "Friday", "FRI", "tuesday and monday", "monday and monday", "weekend",
     "sunday, saturday and weekend", "wednesday", "sunday and weekend"}

DayContexts ==
    {"", "monday through ", "between monday and ", "starting tuesday to ", "15 and ",
     "january to ", "between and ", "3rd to ", "only on ", "every 5 minutes only on ",
     "monday only on ", "every 5 minutes ", "at 4:00 pm "}

DayTexts == {p \o d : p \in DayContexts, d \in DayTokens}

MonthTokens ==
    {"march", "March", "MAR", "december and january", "may and may", "sept",
     "june, feb and june"}

MonthContexts ==
    {"", "january to ", "between january and ", "starting may to ", "15 and ",
     "monday through ", "between and ", "3rd to ", "between 5 and 10 ", "every 5 minutes ",
     "1st "}

MonthTexts == {p \o m : p \in MonthContexts, m \in MonthTokens}

\* Bare unit words after every kind of stack top.
BareWords ==
    {"day", "days", "Day", "DAYS", "month", "months", "Month", "year", "years",
     "seconds", "Seconds", "sec", "minutes", "min", "hours", "hour", "Hours", "hrs"}

BareContexts ==
    {"", "5 ", "3rd ", "0th ", "99999999999 ", "at 4:00 pm ", "monday ", "january ", "day ",
     "between ", "between 5 and ", "between 8 and 5 ", "1st and 15th ", "2nd and ",
     "15 minutes ", "only on "}

BareTexts == {p \o w : p \in BareContexts, w \in BareWords}

\* Two ordinals joined by "and" before a bare month.
OrdinalContexts ==
    {"", "Run at midnight on the ", "between ", "5 and ", "monday through ", "march ",
     "every 5 minutes "}

OrdinalPairTexts ==
    {p \o a \o " and " \o b \o w :
        p \in OrdinalContexts, a \in {"1st", "2nd", "15th", "0th"}, b \in {"15th", "1st", "3rd"},
        w \in {" month", " of the month", " Months"}}

\* Year tokens: one year, lists of years, and numbers of more than four
\* digits, after every kind of stack top.
YearTokens ==
    {"2019", "2019 and 2020", "2020 and 2019", "2019, 2020 and 2021", "2019 and 2019",
     "20199", "20199 and 20200", "2019 and 20200"}

YearContexts ==
    {"", "in ", "between ", "starting ", "2018 to ", "5 and ", "monday through ",
     "between and ", "every 5 minutes ", "3rd ", "from January to August in ", "only on "}

YearTexts == {p \o y : p \in YearContexts, y \in YearTokens}

\* range-start word, number, range-end word, number, minute or hour word
RangeUnitTexts ==
    {s \o " " \o a \o " " \o e \o " " \o b \o " " \o u :
        s \in RangeStartWords, a \in {"8", "0"}, e \in RangeEndWords, b \in {"5", "10"},
        u \in {"minutes", "min", "hours", "hrs"}}

\* Numbers, ordinals and clock hours around the largest 32-bit signed integer.
BigDigits == {"2147483647", "2147483648", "99999999999", "02147483647"}

OverflowTexts ==
    {p \o d \o s :
        p \in {"", "between ", "5 and ", "monday "}, d \in BigDigits,
        s \in {"", "th", "th day", " minutes", ":00", " pm"}}

\* A range-start word, the start of the range, a range-end word.
Payloads == {"15", "3rd", "8:00 am", "noon", "tuesday", "may", "2019", "2019 and 2020"}

OpenedTexts ==
    {x \o s \o " " \o p \o " " \o e :
        x \in {"", "every 5 minutes "}, s \in RangeStartWords, p \in Payloads,
        e \in {"to", "through", "and"}}

\* Texts whose tokens match several recognizers, or none.
ProbeTexts ==
    {"october", "in october 2019", "hr", "every hr", "5 hr weekend",
     "between 8:30 am and 5:45 pm", "every 5 minutes between 8:30 am and 5:45 pm",
     "at 25:00", "at 23:59", "between 9:00 and 25:00"}

Inputs ==
    ProbeTexts \cup OpenedTexts \cup OverflowTexts \cup Examples \cup NoTokenTexts \cup FreeTexts \cup ClockTexts \cup UnitTexts \cup RangeTexts
      \cup DayTexts \cup MonthTexts \cup BareTexts \cup OrdinalPairTexts \cup YearTexts
      \cup RangeUnitTexts

\* What two concurrent calls are given: every Kind, an error, no token, and
\* pairs of texts that differ in letter case only.
PairInputs ==
    {"", "every 15 seconds", "every 15 SECONDS", "noon", "Noon",
     "every 3 hours", "every 3 Hours", ", only on Friday", ", Only On Friday",
     "every 3rd day at 8:75", "Every 3rd Day At 8:75",
     "from January to August in 2019 and 2020",
     "every minute", "Every Minute", "between 8:00 am and 8:00 AM", "every 3 hr"}
(***************************************************************************)
(* cron.rs, lib.rs: the two entry points, one step per loop iteration of   *)
(* Cron::new, for each parse call                                          *)
(***************************************************************************)
Calls == {"a", "b"}

Entries == {"Cron::new", "str_cron_syntax"}

VARIABLES
    input,    \* input[c]: the text given to call c
    entry,    \* entry[c]: the function call c enters
    pc,       \* pc[c]: "idle", "new", "loop", "process", "to_string" or "done"
    tokens,   \* tokens[c]: the Vec returned by Tokenizer::run
    cur,      \* cur[c]: number of tokens the for loop has taken
    kind,     \* kind[c]: Option<Kind> of the token taken
    cron,     \* cron[c]: Some(Cron) while call c owns one
    prev,     \* prev[c]: the Cron before the last processor ran
    touched,  \* touched[c]: fields some processor has changed
    result    \* result[c]: None until call c returns

vars == <<input, entry, pc, tokens, cur, kind, cron, prev, touched, result>>

Fields == {"seconds", "min", "hour", "day_of_month", "day_of_week", "month", "year"}

Changed(before, after) == {f \in Fields : before.syntax[f] # after.syntax[f]}

\* Calls in `active` are about to run; the others are never made.
InitWith(texts, entries, active) ==
    /\ input = texts
    /\ entry = entries
    /\ pc = [c \in Calls |-> IF c \in active THEN "new" ELSE "idle"]
    /\ tokens = [c \in Calls |-> <<>>]
    /\ cur = [c \in Calls |-> 0]
    /\ kind = [c \in Calls |-> None]
    /\ cron = [c \in Calls |-> None]
    /\ prev = [c \in Calls |-> None]
    /\ touched = [c \in Calls |-> {}]
    /\ result = [c \in Calls |-> None]

\* A call that reuses the Cron another call holds instead of Self::default()
Started_shared_cron(c, ts) ==
    /\ tokens' = [tokens EXCEPT ![c] = ts]
    /\ IF ts = <<>>
       THEN /\ result' = [result EXCEPT ![c] = Some(Err(InvalidInput))]
            /\ pc' = [pc EXCEPT ![c] = "done"]
            /\ cron' = cron
       ELSE /\ result' = result
            /\ pc' = [pc EXCEPT ![c] = "loop"]
            /\ cron' = [cron EXCEPT ![c] =
                          IF \A o \in Calls \ {c} : cron[o].none THEN Some(Cron_default)
                          ELSE cron[CHOOSE o \in Calls \ {c} : ~cron[o].none]]

\* Cron::new without the tokens.is_empty() check
Started_no_empty_check(c, ts) ==
    /\ tokens' = [tokens EXCEPT ![c] = ts]
    /\ result' = result
    /\ pc' = [pc EXCEPT ![c] = "loop"]
    /\ cron' = [cron EXCEPT ![c] = Some(Cron_default)]

\* cron.rs lines 68-72: with the tokens ts of the text, fail on an empty
\* list, else Self::default()
Started(c, ts) ==
    /\ tokens' = [tokens EXCEPT ![c] = ts]
    /\ IF ts = <<>>
       THEN /\ result' = [result EXCEPT ![c] = Some(Err(InvalidInput))]
            /\ pc' = [pc EXCEPT ![c] = "done"]
            /\ cron' = cron
       ELSE /\ result' = result
            /\ pc' = [pc EXCEPT ![c] = "loop"]
            /\ cron' = [cron EXCEPT ![c] = Some(Cron_default)]

\* cron.rs lines 64-72: Cron::new up to the loop
New(c) ==
    /\ pc[c] = "new"
    /\ entry[c] = "Cron::new"
    /\ Started(c, run(input[c]))
    /\ UNCHANGED <<input, entry, cur, kind, prev, touched>>

\* lib.rs lines 49-53: with the tokens ts of the text, fail on an empty
\* list, else hand them to to_string
Scanned(c, ts) ==
    /\ tokens' = [tokens EXCEPT ![c] = ts]
    /\ IF ts = <<>>
       THEN /\ result' = [result EXCEPT ![c] = Some(Err(InvalidInput))]
            /\ pc' = [pc EXCEPT ![c] = "done"]
       ELSE /\ result' = result
            /\ pc' = [pc EXCEPT ![c] = "to_string"]

\* lib.rs lines 45-54
str_cron_syntax(c) ==
    /\ pc[c] = "new"
    /\ entry[c] = "str_cron_syntax"
    /\ Scanned(c, run(input[c]))
    /\ UNCHANGED <<input, entry, cur, kind, cron, prev, touched>>

\* The fold of classifier and processors over the tokens from position k
RECURSIVE Fold(_, _, _), FoldOn(_, _, _)
Fold(ts, k, record) ==
    IF k > Len(ts) THEN Ok(record)
    ELSE IF try_from_token(ts[k]).none THEN Fold(ts, k + 1, record)
    ELSE FoldOn(ts, k, Kind_process(try_from_token(ts[k]).v, ts[k], record))

\* short-circuit on the first error
FoldOn(ts, k, r) == IF r.tag = "ok" THEN Fold(ts, k + 1, r.cron) ELSE r

\* the record rendered as the seven-field string
Rendered(r) == IF r.tag = "ok" THEN [tag |-> "ok", text |-> Display(r.cron)] ELSE r

\* str_to_cron::to_string(tokens)
to_string(c) ==
    /\ pc[c] = "to_string"
    /\ result' = [result EXCEPT ![c] = Some(Rendered(Fold(tokens[c], 1, Cron_default)))]
    /\ pc' = [pc EXCEPT ![c] = "done"]
    /\ UNCHANGED <<input, entry, tokens, cur, kind, cron, prev, touched>>

\* A loop that hands the token it has just handled to the classifier again
Classify_same_token(c) ==
    /\ pc[c] = "loop"
    /\ cur[c] < Len(tokens[c])
    /\ cur' = [cur EXCEPT ![c] = IF cur[c] = 0 THEN 1 ELSE cur[c]]
    /\ kind' = [kind EXCEPT ![c] = try_from_token(tokens[c][IF cur[c] = 0 THEN 1 ELSE cur[c]])]
    /\ pc' = [pc EXCEPT ![c] = "process"]
    /\ UNCHANGED <<input, entry, tokens, cron, prev, touched, result>>

\* cron.rs lines 73-74: the loop takes the next token and classifies it
Classify(c) ==
    /\ pc[c] = "loop"
    /\ cur[c] < Len(tokens[c])
    /\ cur' = [cur EXCEPT ![c] = cur[c] + 1]
    /\ kind' = [kind EXCEPT ![c] = try_from_token(tokens[c][cur[c] + 1])]
    /\ pc' = [pc EXCEPT ![c] = "process"]
    /\ UNCHANGED <<input, entry, tokens, cron, prev, touched, result>>

\* A loop that fails on a token of no Kind
Skip_fails(c) ==
    /\ pc[c] = "process"
    /\ kind[c].none
    /\ pc' = [pc EXCEPT ![c] = "done"]
    /\ prev' = [prev EXCEPT ![c] = cron[c]]
    /\ cron' = [cron EXCEPT ![c] = None]
    /\ result' = [result EXCEPT ![c] = Some(Err(InvalidInput))]
    /\ UNCHANGED <<input, entry, tokens, cur, kind, touched>>

\* cron.rs line 74, no Kind: the token is skipped
Skip(c) ==
    /\ pc[c] = "process"
    /\ kind[c].none
    /\ pc' = [pc EXCEPT ![c] = "loop"]
    /\ prev' = [prev EXCEPT ![c] = cron[c]]
    /\ UNCHANGED <<input, entry, tokens, cur, kind, cron, touched, result>>

\* A driver that records the error and goes on with the next token
Process_goes_on(c, k, r) ==
    /\ pc[c] = "process"
    /\ kind[c] = Some(k)
    /\ prev' = [prev EXCEPT ![c] = cron[c]]
    /\ pc' = [pc EXCEPT ![c] = "loop"]
    /\ IF r.tag = "ok"
       THEN /\ cron' = [cron EXCEPT ![c] = Some(r.cron)]
            /\ touched' = [touched EXCEPT ![c] = @ \cup Changed(cron[c].v, r.cron)]
            /\ result' = result
       ELSE /\ cron' = cron
            /\ touched' = touched
            /\ result' = [result EXCEPT ![c] = Some(r)]
    /\ UNCHANGED <<input, entry, tokens, cur, kind>>

\* cron.rs line 75: state.process(&token, &mut cron)? for a token of Kind k,
\* r being what the processor of k makes of the token and the Cron
Process(c, k, r) ==
    /\ pc[c] = "process"
    /\ kind[c] = Some(k)
    /\ prev' = [prev EXCEPT ![c] = cron[c]]
    /\ IF r.tag = "ok"
       THEN /\ cron' = [cron EXCEPT ![c] = Some(r.cron)]
            /\ touched' = [touched EXCEPT ![c] = @ \cup Changed(cron[c].v, r.cron)]
            /\ pc' = [pc EXCEPT ![c] = "loop"]
            /\ result' = result
       ELSE /\ cron' = [cron EXCEPT ![c] = None]
            /\ touched' = touched
            /\ pc' = [pc EXCEPT ![c] = "done"]
            /\ result' = [result EXCEPT ![c] = Some(r)]
    /\ UNCHANGED <<input, entry, tokens, cur, kind>>

\* action/mod.rs lines 94-117: the arm of each Kind
ProcessFrequencyWith(c) ==
    Process(c, "FrequencyWith", frequency_with_process(tokens[c][cur[c]], cron[c].v))

ProcessFrequencyOnly(c) ==
    Process(c, "FrequencyOnly", FrequencyOnly_process(tokens[c][cur[c]], cron[c].v))

ProcessClockTime(c) ==
    Process(c, "ClockTime", clock_time_process(tokens[c][cur[c]], cron[c].v))

ProcessDay(c) == Process(c, "Day", day_process(tokens[c][cur[c]], cron[c].v))

ProcessSecund(c) == Process(c, "Secund", seconds_process(tokens[c][cur[c]], cron[c].v))

ProcessMinute(c) == Process(c, "Minute", minute_process(tokens[c][cur[c]], cron[c].v))

ProcessHour(c) == Process(c, "Hour", hour_process(tokens[c][cur[c]], cron[c].v))

ProcessMonth(c) == Process(c, "Month", month_process(tokens[c][cur[c]], cron[c].v))

ProcessYear(c) == Process(c, "Year", year_process(tokens[c][cur[c]], cron[c].v))

ProcessRangeStart(c) ==
    Process(c, "RangeStart", range_start_process(tokens[c][cur[c]], cron[c].v))

ProcessRangeEnd(c) ==
    Process(c, "RangeEnd", range_end_process(tokens[c][cur[c]], cron[c].v))

ProcessOnlyOn(c) == Process(c, "OnlyOn", Ok(cron[c].v))

\* A return that rejects a Cron whose stack still holds an entry
Return_rejects_leftover(c) ==
    /\ pc[c] = "loop"
    /\ cur[c] = Len(tokens[c])
    /\ result' = [result EXCEPT ![c] =
                    IF cron[c].v.stack = <<>>
                    THEN Some([tag |-> "ok", cron |-> cron[c].v, text |-> Display(cron[c].v)])
                    ELSE Some(Err(InvalidInput))]
    /\ pc' = [pc EXCEPT ![c] = "done"]
    /\ UNCHANGED <<input, entry, tokens, cur, kind, cron, prev, touched>>

\* cron.rs line 78: Ok(cron); text is what Display renders for the returned Cron
Return(c) ==
    /\ pc[c] = "loop"
    /\ cur[c] = Len(tokens[c])
    /\ result' = [result EXCEPT ![c] =
                    Some([tag |-> "ok", cron |-> cron[c].v, text |-> Display(cron[c].v)])]
    /\ pc' = [pc EXCEPT ![c] = "done"]
    /\ UNCHANGED <<input, entry, tokens, cur, kind, cron, prev, touched>>

Next ==
    \E c \in Calls :
        \/ New(c)
        \/ str_cron_syntax(c)
        \/ to_string(c)
        \/ Classify(c)
        \/ Skip(c)
        \/ ProcessFrequencyWith(c)
        \/ ProcessFrequencyOnly(c)
        \/ ProcessClockTime(c)
        \/ ProcessDay(c)
        \/ ProcessSecund(c)
        \/ ProcessMinute(c)
        \/ ProcessHour(c)
        \/ ProcessMonth(c)
        \/ ProcessYear(c)
        \/ ProcessRangeStart(c)
        \/ ProcessRangeEnd(c)
        \/ ProcessOnlyOn(c)
        \/ Return(c)

\* One call: Cron::new on every input, str_cron_syntax on the repository's
\* sentences and on the texts without tokens.
Init ==
    \E text \in Inputs, e \in Entries :
        /\ e = "str_cron_syntax" => text \in Examples \cup NoTokenTexts
        /\ InitWith([c \in Calls |-> IF c = "a" THEN text ELSE ""],
                    [c \in Calls |-> e], {"a"})

Spec == Init /\ [][Next]_vars

\* Two calls running concurrently, steps interleaved in every order.
InitPair ==
    \E ta \in PairInputs, tb \in PairInputs, e \in Entries :
        InitWith([c \in Calls |-> IF c = "a" THEN ta ELSE tb],
                 [c \in Calls |-> IF c = "a" THEN "Cron::new" ELSE e], Calls)

SpecPair == InitPair /\ [][Next]_vars


(***************************************************************************)
(* Properties                                                              *)
(***************************************************************************)
\* Call c of Cron::new has just run the processor of its token number
\* cur[c]: prev[c] is the Cron the processor was given, cron[c] the Cron
\* it left (StepOk), or result[c] the error it returned (StepFailed).
StepOk(c) == entry[c] = "Cron::new" /\ pc[c] = "loop" /\ cur[c] >= 1 /\ ~kind[c].none

StepFailed(c) ==
    /\ entry[c] = "Cron::new" /\ pc[c] = "done" /\ cur[c] >= 1
    /\ ~result[c].none /\ result[c].v.tag # "ok"

Token(c) == tokens[c][cur[c]]

Succeeded(c) == pc[c] = "done" /\ ~result[c].none /\ result[c].v.tag = "ok"

RaisedBy(c, k, state) ==
    /\ result[c].v.tag = "err"
    /\ result[c].v.err.kind = k
    /\ result[c].v.err.state = state

\* C1: a call whose text holds no token, the empty text included, ends with
\* Err(InvalidInput) and has run no processor: it never took a token, never
\* owned a Cron and changed no field.
C1_NoTokens ==
    \A c \in Calls :
        (pc[c] \notin {"idle", "new"} /\ (tokens[c] = <<>> \/ input[c] \in NoTokenTexts)) =>
            /\ tokens[c] = <<>>
            /\ pc[c] = "done"
            /\ result[c] = Some(Err(InvalidInput))
            /\ cur[c] = 0
            /\ kind[c].none /\ cron[c].none /\ prev[c].none
            /\ touched[c] = {}

C1_Witness ==
    \E c \in Calls :
        /\ input[c] = "" /\ entry[c] = "Cron::new" /\ pc[c] = "done"
        /\ result[c] = Some(Err(InvalidInput))

\* The defaults C2 names
ShownDefault ==
    [seconds |-> "0", min |-> "*", hour |-> "*", day_of_month |-> "*",
     month |-> "*", day_of_week |-> "?", year |-> "*"]

AtomChars == Digits \cup {Char(UpperChars, i) : i \in 1..Len(UpperChars)}

IsAtom(s) == s # "" /\ \A i \in 1..Len(s) : Char(s, i) \in AtomChars

IsNumber(s) == s # "" /\ \A i \in 1..Len(s) : IsDigit(Char(s, i))

IsList(s) ==
    /\ s # ""
    /\ \A i \in 1..Len(s) : Char(s, i) \in AtomChars \cup {","}
    /\ Char(s, 1) # "," /\ Char(s, Len(s)) # ","
    /\ ~contains(s, ",,")

IsRange(s) ==
    \E i \in 1..Len(s) :
        Char(s, i) = "-" /\ IsAtom(SubSeq(s, 1, i - 1)) /\ IsAtom(SubSeq(s, i + 1, Len(s)))

IsRepeat(s) ==
    \E i \in 1..Len(s) :
        /\ Char(s, i) = "/"
        /\ (SubSeq(s, 1, i - 1) = "*" \/ IsNumber(SubSeq(s, 1, i - 1)))
        /\ IsNumber(SubSeq(s, i + 1, Len(s)))

AllowedShape(s) == s \in {"*", "?"} \/ IsList(s) \/ IsRange(s) \/ IsRepeat(s)

\* C3: each of the seven fields of a successful call is non-empty and has
\* one of the allowed shapes.
C3_Shapes ==
    \A c \in Calls :
        (Succeeded(c) /\ entry[c] = "Cron::new") =>
            \A f \in Fields : AllowedShape(result[c].v.cron.syntax[f])

\* "between monday" succeeds with an empty day_of_week
C3_EmptyField ==
    \E c \in Calls :
        /\ input[c] = "between monday" /\ Succeeded(c)
        /\ result[c].v.cron.syntax.day_of_week = ""
        /\ result[c].v.text = "0 * * * *  *"
        /\ \A f \in Fields \ {"day_of_week"} : AllowedShape(result[c].v.cron.syntax[f])

\* C4: once the processor of token i has returned an error, the call is over
\* with exactly that error: the loop stands at token i for good and the
\* caller gets no Cron.
C4_ErrorEndsCall ==
    \A c \in Calls :
        (entry[c] = "Cron::new" /\ cur[c] >= 1 /\ ~result[c].none /\ result[c].v.tag # "ok") =>
            /\ pc[c] = "done"
            /\ cron[c].none
            /\ ~kind[c].none
            /\ result[c].v = Kind_process(kind[c].v, Token(c), prev[c].v)
            /\ "cron" \notin DOMAIN result[c].v

C4_Witness ==
    \E c \in Calls :
        /\ StepFailed(c)
        /\ input[c] = "8:75 monday 15"
        /\ cur[c] = 1 /\ Len(tokens[c]) = 3
        /\ RaisedBy(c, "IncorrectValue", "clock_time")

\* What one call on its own makes of the tokens ts
Alone(ts) == Fold(ts, 1, Cron_default)

\* C5: with two calls interleaved in any order, a call enters its loop with
\* the default Schedule Record and an empty stack, ends with what it would
\* return on its own, and two calls of the same function on the same text
\* end with identical results.
C5_Independent ==
    /\ \A c \in Calls :
           /\ (entry[c] = "Cron::new" /\ pc[c] = "loop" /\ cur[c] = 0) =>
                  cron[c] = Some([syntax |-> ShownDefault, stack |-> <<>>])
           /\ (entry[c] = "Cron::new" /\ pc[c] = "done" /\ tokens[c] # <<>>) =>
                  IF Alone(tokens[c]).tag = "ok"
                  THEN Succeeded(c) /\ result[c].v.cron = Alone(tokens[c]).cron
                  ELSE result[c] = Some(Alone(tokens[c]))
    /\ \A c \in Calls, d \in Calls :
           (pc[c] = "done" /\ pc[d] = "done" /\ input[c] = input[d] /\ entry[c] = entry[d]) =>
               result[c] = result[d]

\* Both calls parse the same failing text and both have returned the same
\* error.
C5_Witness ==
    /\ input["a"] = "every 3rd day at 8:75" /\ input["b"] = input["a"]
    /\ entry["a"] = entry["b"]
    /\ pc["a"] = "done" /\ pc["b"] = "done"
    /\ result["a"] = result["b"]
    /\ RaisedBy("a", "IncorrectValue", "clock_time")

\* Two finished calls agree: both failed with the same kind of error raised
\* by the same processor, or both succeeded with the same text.
SameOutcome(c, d) ==
    /\ result[c].v.tag = result[d].v.tag
    /\ result[c].v.tag = "ok" => result[c].v.text = result[d].v.text
    /\ result[c].v.tag = "err" =>
           /\ result[c].v.err.kind = result[d].v.err.kind
           /\ (result[c].v.err.kind # "InvalidInput" =>
                   result[c].v.err.state = result[d].v.err.state)

\* C6: two calls of the same function on texts that differ only in the case
\* of their letters end with the same result.
C6_CaseInsensitive ==
    \A c \in Calls, d \in Calls :
        (/\ pc[c] = "done" /\ pc[d] = "done" /\ entry[c] = entry[d]
         /\ to_lowercase(input[c]) = to_lowercase(input[d])) => SameOutcome(c, d)

\* "noon" is 12 o'clock, "Noon" is 0 o'clock
C6_NoonDiffers ==
    /\ input["a"] = "noon" /\ input["b"] = "Noon"
    /\ Succeeded("a") /\ Succeeded("b")
    /\ result["a"].v.text = "0 0 12 * * ? *"
    /\ result["b"].v.text = "0 0 0 * * ? *"

\* "every 15 SECONDS" and "every 3 Hours" leave every field at its default
C6_UnitWordDiffers ==
    \E t \in {<<"every 15 seconds", "0/15 * * * * ? *", "every 15 SECONDS">>,
              <<"every 3 hours", "0 * 0/3 * * ? *", "every 3 Hours">>} :
        /\ input["a"] = t[1] /\ input["b"] = t[3]
        /\ Succeeded("a") /\ Succeeded("b")
        /\ result["a"].v.text = t[2]
        /\ result["b"].v.text = "0 * * * * ? *"

\* The field a unit word of each Kind stands for
UnitField == [Secund |-> "seconds", Minute |-> "min", Hour |-> "hour"]

\* Call c has just run the processor of a unit word that came right after a
\* bare number whose FrequencyOnly entry was on top of the stack.
AfterNumberAndUnit(c) ==
    /\ StepOk(c) /\ cur[c] >= 2
    /\ kind[c].v \in DOMAIN UnitField
    /\ IsNumber(tokens[c][cur[c] - 1])
    /\ ~last(prev[c].v.stack).none
    /\ last(prev[c].v.stack).v.owner = "FrequencyOnly"
    /\ last(prev[c].v.stack).v.frequency = parse_i32(tokens[c][cur[c] - 1])

\* C7: a unit word right after a bare number N writes "0/N" to the field of
\* its unit, takes the FrequencyOnly entry of N off the stack and changes
\* none of the other six fields.
C7_NumberThenUnit ==
    \A c \in Calls :
        AfterNumberAndUnit(c) =>
            /\ cron[c].v.syntax[UnitField[kind[c].v]] =
                   "0/" \o ToString(parse_i32(tokens[c][cur[c] - 1]).v)
            /\ \A f \in Fields \ {UnitField[kind[c].v]} :
                   cron[c].v.syntax[f] = prev[c].v.syntax[f]
            /\ \A k \in 1..Len(cron[c].v.stack) :
                   cron[c].v.stack[k].owner = "FrequencyOnly" =>
                       k < Len(prev[c].v.stack) /\ cron[c].v.stack[k] = prev[c].v.stack[k]

\* "15 SECONDS": the processor of SECONDS leaves the Cron as it found it
C7_UpperCaseUnit ==
    \E c \in Calls :
        /\ AfterNumberAndUnit(c)
        /\ tokens[c][cur[c] - 1] = "15" /\ Token(c) = "SECONDS"
        /\ cron[c] = prev[c]
        /\ cron[c].v.syntax.seconds = "0"

\* The digits of s from position i on, up to the first character that is
\* no digit
RECURSIVE DigitRun(_, _)
DigitRun(s, i) ==
    IF i <= Len(s) /\ IsDigit(Char(s, i)) THEN Char(s, i) \o DigitRun(s, i + 1) ELSE ""

\* The leading hour of a clock token and the minute part after its colon
HourDigits(token) == DigitRun(token, 1)

MinuteDigits(token) ==
    IF contains(token, ":")
    THEN DigitRun(token, 1 + CHOOSE i \in 1..Len(token) :
                                /\ Char(token, i) = ":"
                                /\ \A j \in 1..(i - 1) : Char(token, j) # ":")
    ELSE ""

\* A number written with these digits fits a 32-bit signed integer
Fits(digits) == digits = "" \/ ~parse_i32(digits).none

HasSuffix(token, suffix) == contains(to_lowercase(token), suffix)

\* Call c has just run the ClockTime processor on its token, with or
\* without success.
ClockStep(c) == (StepOk(c) \/ StepFailed(c)) /\ kind[c] = Some("ClockTime")

AmPmStep(c) ==
    /\ ClockStep(c)
    /\ HourDigits(Token(c)) # ""
    /\ (HasSuffix(Token(c), "am") \/ HasSuffix(Token(c), "pm"))

\* What C8 says the hour h of a token with this suffix becomes
AmPmHour(token, h) ==
    IF HasSuffix(token, "pm") THEN (IF h < 12 THEN h + 12 ELSE 12)
    ELSE (IF h = 12 THEN 0 ELSE h)

\* The ClockTime processor of call c stored hour m where the stack top it
\* found has it store an hour: in the open range, as the end of the closing
\* range, else in the hour field.
HourWritten(c, m) ==
    LET top == last(prev[c].v.stack)
    IN  IF ~top.none /\ top.v.owner = "RangeStart"
        THEN last(cron[c].v.stack).v.hour = Some(StartEnd(Some(m), None))
        ELSE IF ~top.none /\ top.v.owner = "RangeEnd"
        THEN \/ top.v.hour.none /\ cron[c] = prev[c]
             \/ /\ ~top.v.hour.none
                /\ cron[c].v.syntax.hour =
                       ToString(unwrap_or_default(top.v.hour.v.start)) \o "-" \o ToString(m)
        ELSE cron[c].v.syntax.hour = ToString(m)

\* C8 as stated: for a clock token with leading hour h and an am/pm suffix,
\* h > 12 fails with IncorrectValue raised by clock_time, and a conversion
\* that succeeds stores h + 12 for pm and h < 12, 12 for 12 pm, 0 for
\* 12 am and h for am and h < 12, an hour in 0..23.
C8_AmPmAsStated ==
    \A c \in Calls :
        AmPmStep(c) =>
            IF ~Fits(HourDigits(Token(c))) \/ parse_i32(HourDigits(Token(c))).v > 12
            THEN StepFailed(c) /\ RaisedBy(c, "IncorrectValue", "clock_time")
            ELSE StepOk(c) =>
                     /\ AmPmHour(Token(c), parse_i32(HourDigits(Token(c))).v) \in 0..23
                     /\ HourWritten(c, AmPmHour(Token(c), parse_i32(HourDigits(Token(c))).v))

\* C8, amended: the same for tokens whose hour and minute digits each fit
\* a 32-bit signed integer; a token with digits that do not fit fails with
\* ParseToNumber raised by clock_time. With h <= 12 the token fails only
\* for a minute part of 60 or more.
C8_AmPm ==
    \A c \in Calls :
        AmPmStep(c) =>
            IF ~Fits(HourDigits(Token(c))) \/ ~Fits(MinuteDigits(Token(c)))
            THEN StepFailed(c) /\ RaisedBy(c, "ParseToNumber", "clock_time")
            ELSE IF parse_i32(HourDigits(Token(c))).v > 12
            THEN StepFailed(c) /\ RaisedBy(c, "IncorrectValue", "clock_time")
            ELSE /\ StepOk(c) =>
                     /\ AmPmHour(Token(c), parse_i32(HourDigits(Token(c))).v) \in 0..23
                     /\ HourWritten(c, AmPmHour(Token(c), parse_i32(HourDigits(Token(c))).v))
                 /\ StepFailed(c) =>
                     /\ MinuteDigits(Token(c)) # ""
                     /\ parse_i32(MinuteDigits(Token(c))).v >= 60

\* 12 am is stored as hour 0
C8_Witness ==
    \E c \in Calls :
        /\ AmPmStep(c) /\ StepOk(c)
        /\ Token(c) = "12 am"
        /\ prev[c].v.stack = <<>>
        /\ cron[c].v.syntax.hour = "0"

\* The decimal texts of the minutes of an hour
MinuteTexts == {ToString(m) : m \in 0..59}

\* The processor of call c left every minute it stores in 0..59: the min
\* field and the min of a stack entry it pushed or changed.
MinutesInRange(c) ==
    /\ cron[c].v.syntax.min = prev[c].v.syntax.min \/ cron[c].v.syntax.min \in MinuteTexts
    /\ \A k \in 1..Len(cron[c].v.stack) :
           (k > Len(prev[c].v.stack) \/ cron[c].v.stack[k] # prev[c].v.stack[k]) =>
               \/ cron[c].v.stack[k].min.none
               \/ (k <= Len(prev[c].v.stack) /\ cron[c].v.stack[k].min = prev[c].v.stack[k].min)
               \/ /\ unwrap_or_default(cron[c].v.stack[k].min.v.start) \in 0..59
                  /\ unwrap_or_default(cron[c].v.stack[k].min.v.end) \in 0..59

Hour24(token) ==
    LET h == IF HourDigits(token) = "" THEN 0 ELSE parse_i32(HourDigits(token)).v
    IN  IF HasSuffix(token, "noon") THEN 12
        ELSE IF HasSuffix(token, "midnight") THEN 0
        ELSE IF HasSuffix(token, "pm") THEN (IF h < 12 THEN h + 12 ELSE h)
        ELSE IF HasSuffix(token, "am") THEN (IF h = 12 THEN 0 ELSE h)
        ELSE h

\* Call c has just run the ClockTime processor on the last of the four
\* tokens range-start word, clock time, range-end word, clock time.
AfterClockRange(c) ==
    /\ StepOk(c) /\ cur[c] >= 4
    /\ kind[c] = Some("ClockTime")
    /\ try_from_token(tokens[c][cur[c] - 1]) = Some("RangeEnd")
    /\ try_from_token(tokens[c][cur[c] - 2]) = Some("ClockTime")
    /\ try_from_token(tokens[c][cur[c] - 3]) = Some("RangeStart")

\* C10: after range-start word, clock time T1, range-end word, clock time
\* T2 the hour field is "h1-h2", h1 and h2 being the 24-hour hours of T1
\* and T2, also when h1 = h2.
C10_ClockRange ==
    \A c \in Calls :
        AfterClockRange(c) =>
            cron[c].v.syntax.hour =
                ToString(Hour24(tokens[c][cur[c] - 2])) \o "-" \o ToString(Hour24(Token(c)))

\* "between Noon and 5:55 pm" gives the hours 0-17
C10_NoonRange ==
    \E c \in Calls :
        /\ AfterClockRange(c)
        /\ tokens[c][cur[c] - 2] = "Noon" /\ Token(c) = "5:55 pm"
        /\ cron[c].v.syntax.hour = "0-17"

\* The three-letter names of the weekdays and of the months
DayAbbreviations == {"mon", "tue", "wed", "thu", "fri", "sat", "sun"}

MonthAbbreviations ==
    {"jan", "feb", "mar", "apr", "may", "jun", "jul", "aug", "sep", "oct", "nov", "dec"}

\* The positions of the token at which one of the names starts
NameStarts(token, names) ==
    {i \in 1..Len(token) : \E n \in names : StartsWithAt(to_lowercase(token), i, n)}

Names(token, names) == NameStarts(token, names) # {}

\* The first of the names in the token, in capitals
FirstName(token, names) ==
    LET i == CHOOSE k \in NameStarts(token, names) :
                 \A j \in NameStarts(token, names) : k <= j
    IN  to_uppercase(SubSeq(token, i, i + 2))

\* Call c has just run, with success, the processor of Kind k on a token
\* that names one of the names, the stack top having been an entry of
\* this owner.
NamedStep(c, k, names, owner) ==
    /\ StepOk(c) /\ kind[c] = Some(k)
    /\ Names(Token(c), names)
    /\ prev[c].v.stack # <<>>
    /\ last(prev[c].v.stack).v.owner = owner

\* C11: a weekday token processed on top of a RangeEnd entry sets
\* day_of_week to "start-end", start being the weekday the entry records and
\* end the first weekday of the token, sets day_of_month to "?" and pops the
\* entry.
C11_DayRange ==
    \A c \in Calls :
        (NamedStep(c, "Day", DayAbbreviations, "RangeEnd") /\ ~HasSuffix(Token(c), "weekend")) =>
            /\ ~last(prev[c].v.stack).v.day.none
            /\ ~last(prev[c].v.stack).v.day.v.start.none
            /\ cron[c].v.syntax.day_of_week =
                   last(prev[c].v.stack).v.day.v.start.v \o "-"
                     \o FirstName(Token(c), DayAbbreviations)
            /\ cron[c].v.syntax.day_of_month = "?"
            /\ cron[c].v.stack = Pop(prev[c].v.stack)

\* "between and monday": the RangeEnd entry records no weekday and
\* day_of_week is left empty
C11_NoStart ==
    \E c \in Calls :
        /\ NamedStep(c, "Day", DayAbbreviations, "RangeEnd")
        /\ input[c] = "between and monday" /\ cur[c] = 3
        /\ last(prev[c].v.stack).v.day.none
        /\ cron[c].v.syntax.day_of_week = ""
        /\ cron[c].v.syntax.day_of_month = "?"
        /\ cron[c].v.stack = <<>>

\* "Monday through Friday" gives MON-FRI
C11_MonFri ==
    \E c \in Calls :
        /\ NamedStep(c, "Day", DayAbbreviations, "RangeEnd")
        /\ Token(c) = "Friday"
        /\ cron[c].v.syntax.day_of_week = "MON-FRI"

\* C12: a month token processed on top of a RangeEnd entry sets the month
\* field to "start-end", start being the month the entry records and end
\* the first month of the token, and pops the entry.
C12_MonthRange ==
    \A c \in Calls :
        NamedStep(c, "Month", MonthAbbreviations, "RangeEnd") =>
            /\ ~last(prev[c].v.stack).v.month.none
            /\ ~last(prev[c].v.stack).v.month.v.start.none
            /\ cron[c].v.syntax.month =
                   last(prev[c].v.stack).v.month.v.start.v \o "-"
                     \o FirstName(Token(c), MonthAbbreviations)
            /\ cron[c].v.stack = Pop(prev[c].v.stack)

\* "15 and march": the RangeEnd entry records no month and the month field
\* is left empty
C12_NoStart ==
    \E c \in Calls :
        /\ NamedStep(c, "Month", MonthAbbreviations, "RangeEnd")
        /\ input[c] = "15 and march" /\ cur[c] = 3
        /\ last(prev[c].v.stack).v.month.none
        /\ cron[c].v.syntax.month = ""
        /\ cron[c].v.stack = <<>>

(***************************************************************************)
(* Weekday and month lists                                                 *)
(***************************************************************************)
\* The names of the canonical sequence that the token names, in lower case
\* or upper case, as the set of their positions in the canonical sequence.
Named(token, canon, extra) ==
    {i \in 1..Len(canon) :
        \/ \E k \in 1..Len(token) : StartsWithAt(to_lowercase(token), k, to_lowercase(canon[i]))
        \/ i \in extra}

\* The comma list of the canonical names at the positions of the set.
RECURSIVE CanonList(_, _, _)
CanonList(canon, set, i) ==
    IF i > Len(canon) THEN ""
    ELSE IF i \in set
    THEN canon[i] \o (IF \E j \in set : j > i THEN "," ELSE "") \o CanonList(canon, set, i + 1)
    ELSE CanonList(canon, set, i + 1)

\* SAT and SUN, which WEEKEND stands for.
WeekendDays(token) ==
    IF \E k \in 1..Len(token) : StartsWithAt(to_lowercase(token), k, "weekend") THEN {6, 7} ELSE {}

\* A step on a token that names weekdays (or months) outside a range: the
\* top of the stack, if any, is neither an open nor a closing range.
ListStep(c, k, names) ==
    /\ StepOk(c) /\ kind[c] = Some(k)
    /\ Names(Token(c), names) \/ (k = "Day" /\ WeekendDays(Token(c)) # {})
    /\ prev[c].v.stack # <<>> => last(prev[c].v.stack).v.owner \notin {"RangeStart", "RangeEnd"}

\* C13: outside a range a weekday-list token leaves day_of_week the comma
\* list of the distinct weekdays it names in the order MON..SUN, WEEKEND
\* counting as SAT and SUN, and a month-list token leaves the month field the
\* distinct months it names in the order JAN..DEC.
C13_Lists ==
    \A c \in Calls :
        /\ ListStep(c, "Day", DayAbbreviations) =>
              cron[c].v.syntax.day_of_week
                 = CanonList(WEEK_DAYS, Named(Token(c), WEEK_DAYS, WeekendDays(Token(c))), 1)
        /\ ListStep(c, "Month", MonthAbbreviations) =>
              cron[c].v.syntax.month = CanonList(MONTHS, Named(Token(c), MONTHS, {}), 1)

\* "sunday and weekend": SUN is written by the loop over the weekdays and SAT
\* is appended after it by the WEEKEND loop.
C13_SunBeforeSat ==
    \E c \in Calls :
        /\ ListStep(c, "Day", DayAbbreviations)
        /\ Token(c) = "sunday and weekend"
        /\ cron[c].v.syntax.day_of_week = "SUN,SAT"

\* The month half of C13 and the weekday half for tokens that do not name
\* WEEKEND after SUN.
C13_ListsWithoutWeekend ==
    \A c \in Calls :
        /\ (ListStep(c, "Day", DayAbbreviations) /\ WeekendDays(Token(c)) = {}) =>
              cron[c].v.syntax.day_of_week = CanonList(WEEK_DAYS, Named(Token(c), WEEK_DAYS, {}), 1)
        /\ ListStep(c, "Month", MonthAbbreviations) =>
              cron[c].v.syntax.month = CanonList(MONTHS, Named(Token(c), MONTHS, {}), 1)

(***************************************************************************)
(* Bare "day" / "days"                                                     *)
(***************************************************************************)
\* A step of the given kind on one of the bare unit words.
BareStep(c, k, words) ==
    StepOk(c) /\ kind[c] = Some(k) /\ to_lowercase(Token(c)) \in words

\* The stack top before the step is an entry of the given owner.
TopWas(c, owner) ==
    prev[c].v.stack # <<>> /\ last(prev[c].v.stack).v.owner = owner

\* The frequency of the entry on top of the stack before the step, as text.
TopFrequency(c) ==
    IF last(prev[c].v.stack).v.frequency.none THEN "*"
    ELSE ToString(last(prev[c].v.stack).v.frequency.v)

\* What a bare day leaves besides day_of_month.
BareDayFields(c) ==
    /\ cron[c].v.syntax.day_of_week = "?"
    /\ cron[c].v.syntax.min = (IF prev[c].v.syntax.min = "*" THEN "0" ELSE prev[c].v.syntax.min)
    /\ cron[c].v.syntax.hour = (IF prev[c].v.syntax.hour = "*" THEN "0" ELSE prev[c].v.syntax.hour)

IsOrdinal(t) ==
    /\ DigitRun(t, 1) # ""
    /\ Len(t) = Len(DigitRun(t, 1)) + 2
    /\ to_lowercase(SubSeq(t, Len(t) - 1, Len(t))) \in {"st", "nd", "rd", "th"}

\* The field a unit word or a bare day resolves a pending frequency into.
OrdinalField ==
    [Secund |-> "seconds", Minute |-> "min", Hour |-> "hour", Day |-> "day_of_month"]

\* Call c has just run the processor of a unit word (or of a bare day) that
\* came right after an ordinal whose FrequencyWith entry was on top of the
\* stack.
AfterOrdinalAndUnit(c) ==
    /\ StepOk(c) /\ cur[c] >= 2
    /\ kind[c].v \in DOMAIN OrdinalField
    /\ kind[c].v = "Day" => to_lowercase(Token(c)) \in {"day", "days"}
    /\ IsOrdinal(tokens[c][cur[c] - 1])
    /\ TopWas(c, "FrequencyWith")
    /\ last(prev[c].v.stack).v.frequency = parse_i32(DigitRun(tokens[c][cur[c] - 1], 1))

\* C15: a unit word right after an ordinal Nth writes the literal N to the
\* field of its unit (a bare day to day_of_month) and takes the FrequencyWith
\* entry of N off the stack.
C15_OrdinalThenUnit ==
    \A c \in Calls :
        AfterOrdinalAndUnit(c) =>
            /\ cron[c].v.syntax[OrdinalField[kind[c].v]] =
                   ToString(parse_i32(DigitRun(tokens[c][cur[c] - 1], 1)).v)
            /\ \A k \in 1..Len(cron[c].v.stack) :
                   cron[c].v.stack[k].owner = "FrequencyWith" =>
                       k < Len(prev[c].v.stack) /\ cron[c].v.stack[k] = prev[c].v.stack[k]

\* "3rd Hours": the processor of Hours leaves the Cron as it found it, the
\* FrequencyWith entry of 3 still on the stack.
C15_UpperCaseUnit ==
    \E c \in Calls :
        /\ AfterOrdinalAndUnit(c)
        /\ tokens[c][cur[c] - 1] = "3rd" /\ Token(c) = "Hours"
        /\ cron[c] = prev[c]
        /\ cron[c].v.syntax.hour = "*"

\* C15 for the unit words in lower case.
C15_LowerCaseUnits ==
    \A c \in Calls :
        (AfterOrdinalAndUnit(c) /\ Token(c) = to_lowercase(Token(c))) =>
            /\ cron[c].v.syntax[OrdinalField[kind[c].v]] =
                   ToString(parse_i32(DigitRun(tokens[c][cur[c] - 1], 1)).v)
            /\ \A k \in 1..Len(cron[c].v.stack) :
                   cron[c].v.stack[k].owner = "FrequencyWith" =>
                       k < Len(prev[c].v.stack) /\ cron[c].v.stack[k] = prev[c].v.stack[k]

\* "every 3rd day at 2:55 am ...": the bare day after 3rd writes "3".
C15_ThirdDay ==
    \E c \in Calls :
        /\ AfterOrdinalAndUnit(c)
        /\ tokens[c][cur[c] - 1] = "3rd" /\ Token(c) = "day"
        /\ cron[c].v.syntax.day_of_month = "3"

(***************************************************************************)
(* "on the Ath and Bth of the month"                                       *)
(***************************************************************************)
\* The number an ordinal names.
OrdinalNumber(t) == parse_i32(DigitRun(t, 1)).v

\* Call c has just run the processor of a bare month that came right after
\* ordinal, "and", ordinal.
AfterOrdinalPairAndMonth(c) ==
    /\ BareStep(c, "Month", {"month", "months"})
    /\ cur[c] >= 4
    /\ IsOrdinal(tokens[c][cur[c] - 3])
    /\ to_lowercase(tokens[c][cur[c] - 2]) = "and"
    /\ IsOrdinal(tokens[c][cur[c] - 1])

\* The Cron the first ordinal of the pair was processed on.
BeforePair(c) == Fold(SubSeq(tokens[c], 1, cur[c] - 4), 1, Cron_default).cron

\* What the pair and the bare month leave.
PairListed(c) ==
    /\ cron[c].v.syntax.day_of_month =
          ToString(OrdinalNumber(tokens[c][cur[c] - 3])) \o ","
            \o ToString(OrdinalNumber(tokens[c][cur[c] - 1]))
    /\ cron[c].v.syntax.month = prev[c].v.syntax.month

\* C16 as stated: after ordinals A and B joined by "and" a bare month writes
\* "A,B" to day_of_month and leaves the month field unchanged.
C16_OrdinalPairAsStated ==
    \A c \in Calls : AfterOrdinalPairAndMonth(c) => PairListed(c)

\* C16 (amended): after ordinals A and B joined by "and", A having been
\* processed on a stack whose top is no RangeEnd entry, a bare month writes
\* "A,B" to day_of_month and leaves the month field unchanged.
C16_OrdinalPair ==
    \A c \in Calls :
        (/\ AfterOrdinalPairAndMonth(c)
         /\ BeforePair(c).stack # <<>> => last(BeforePair(c).stack).v.owner # "RangeEnd")
            => PairListed(c)

\* "Run at midnight on the 1st and 15th of the month" returns with
\* day_of_month "1,15" and the month field still "*".
C16_Witness ==
    \E c \in Calls :
        /\ input[c] = "Run at midnight on the 1st and 15th of the month"
        /\ AfterOrdinalPairAndMonth(c)
        /\ cron[c].v.syntax.day_of_month = "1,15"
        /\ cron[c].v.syntax.month = "*"
        /\ Display(cron[c].v) = "0 0 0 1,15 * ? *"

(***************************************************************************)
(* Years                                                                   *)
(***************************************************************************)
\* The maximal runs of digits of s from position i on, in order.
RECURSIVE DigitRuns(_, _)
DigitRuns(s, i) ==
    IF i > Len(s) THEN <<>>
    ELSE IF IsDigit(Char(s, i))
    THEN <<DigitRun(s, i)>> \o DigitRuns(s, i + Len(DigitRun(s, i)))
    ELSE DigitRuns(s, i + 1)

\* The token names years only: digits in runs of exactly four, joined by
\* "and", commas and spaces.
NamesYears(t) ==
    /\ DigitRuns(t, 1) # <<>>
    /\ \A k \in 1..Len(DigitRuns(t, 1)) : Len(DigitRuns(t, 1)[k]) = 4
    /\ \A i \in 1..Len(t) : IsDigit(Char(t, i)) \/ Char(t, i) \in {" ", ",", "a", "n", "d"}

RECURSIVE CommaJoined(_)
CommaJoined(ss) ==
    IF ss = <<>> THEN ""
    ELSE IF Len(ss) = 1 THEN ss[1]
    ELSE ss[1] \o "," \o CommaJoined(Tail(ss))

\* The stack top before the step, if any, is neither an open nor a closing
\* range.
OutsideRange(c) ==
    prev[c].v.stack # <<>> => last(prev[c].v.stack).v.owner \notin {"RangeStart", "RangeEnd"}

\* C17: a token that names one or more four-digit years outside a range
\* leaves the year field the comma-joined list of those years in input order.
C17_YearList ==
    \A c \in Calls :
        (StepOk(c) /\ NamesYears(Token(c)) /\ OutsideRange(c)) =>
            cron[c].v.syntax.year = CommaJoined(DigitRuns(Token(c), 1))

\* "in 2019": the token 2019 is taken for a bare number, a FrequencyOnly
\* entry of 2019 is pushed and the year field stays "*".
C17_SingleYear ==
    \E c \in Calls :
        /\ input[c] = "in 2019"
        /\ StepOk(c) /\ Token(c) = "2019"
        /\ kind[c] = Some("FrequencyOnly")
        /\ cron[c].v.syntax.year = "*"
        /\ last(cron[c].v.stack).v.owner = "FrequencyOnly"

\* C17 for the tokens the Year processor is given.
C17_YearListOfYearKind ==
    \A c \in Calls :
        (StepOk(c) /\ NamesYears(Token(c)) /\ OutsideRange(c) /\ kind[c] = Some("Year")) =>
            cron[c].v.syntax.year = CommaJoined(DigitRuns(Token(c), 1))

\* The Year processor was given a token that is not the year keyword and
\* holds no run of exactly four digits, and has returned.
YearWithoutYear(c) ==
    /\ StepOk(c) \/ StepFailed(c)
    /\ kind[c] = Some("Year")
    /\ to_lowercase(Token(c)) \notin {"year", "years"}
    /\ \A k \in 1..Len(DigitRuns(Token(c), 1)) : Len(DigitRuns(Token(c), 1)[k]) # 4

\* C18: a token of the Year processor that is not the year keyword and holds
\* no four-digit number fails with IncorrectValue raised by year, whatever
\* the stack holds.
C18_NoYearFails ==
    \A c \in Calls :
        YearWithoutYear(c) => StepFailed(c) /\ RaisedBy(c, "IncorrectValue", "year")

\* "between 20199 and 20200": on a RangeStart entry the Year processor
\* returns Ok and the call goes on with the year field still "*".
C18_OpenRange ==
    \E c \in Calls :
        /\ YearWithoutYear(c) /\ StepOk(c)
        /\ TopWas(c, "RangeStart")
        /\ Token(c) = "20199 and 20200"
        /\ cron[c].v.syntax.year = "*"

\* "5 and 20199 and 20200": on a RangeEnd entry the Year processor returns
\* Ok and writes "0-0" to the year field.
C18_ClosingRange ==
    \E c \in Calls :
        /\ YearWithoutYear(c) /\ StepOk(c)
        /\ TopWas(c, "RangeEnd")
        /\ cron[c].v.syntax.year = "0-0"

\* C18 outside a range.
C18_NoYearFailsOutsideRange ==
    \A c \in Calls :
        (YearWithoutYear(c) /\ OutsideRange(c)) =>
            StepFailed(c) /\ RaisedBy(c, "IncorrectValue", "year")

(***************************************************************************)
(* "between 8 and 5 minutes"                                               *)
(***************************************************************************)
\* Call c has just run the processor of a minute or hour word that came
\* right after range-start word, number, range-end word, number.
AfterNumberRangeAndUnit(c) ==
    /\ StepOk(c) /\ cur[c] >= 5
    /\ kind[c].v \in {"Minute", "Hour"}
    /\ to_lowercase(tokens[c][cur[c] - 4]) \in RangeStartWords
    /\ IsNumber(tokens[c][cur[c] - 3])
    /\ to_lowercase(tokens[c][cur[c] - 2]) \in RangeEndWords
    /\ IsNumber(tokens[c][cur[c] - 1])

\* C19: after range-start word, number A, range-end word, number B, a minute
\* (or hour) word writes "A-B" to the minute (or hour) field.
C19_NumberRange ==
    \A c \in Calls :
        AfterNumberRangeAndUnit(c) =>
            cron[c].v.syntax[UnitField[kind[c].v]] =
                tokens[c][cur[c] - 3] \o "-" \o tokens[c][cur[c] - 1]

\* "between 8 and 5 minutes": the RangeEnd entry held 8 and 5, the processor
\* records them in the entry, clears frequency_end and leaves the minute
\* field "*".
C19_FieldNotWritten ==
    \E c \in Calls :
        /\ input[c] = "between 8 and 5 minutes"
        /\ AfterNumberRangeAndUnit(c)
        /\ TopWas(c, "RangeEnd")
        /\ last(prev[c].v.stack).v.frequency_start = Some(8)
        /\ last(prev[c].v.stack).v.frequency_end = Some(5)
        /\ last(cron[c].v.stack).v.min = Some(StartEnd(Some(8), Some(5)))
        /\ last(cron[c].v.stack).v.frequency_end = None
        /\ cron[c].v.syntax.min = "*"

(***************************************************************************)
(* "only on"                                                               *)
(***************************************************************************)
\* Call c has just run the Day processor on a token of named weekdays that
\* came right after an "only on" token.
AfterOnlyOn(c) ==
    /\ StepOk(c) /\ cur[c] >= 2
    /\ kind[c] = Some("Day")
    /\ Names(Token(c), DayAbbreviations)
    /\ WeekendDays(Token(c)) = {}
    /\ to_lowercase(tokens[c][cur[c] - 1]) = "only on"

\* The entries the stack held before the step, an OnlyOn entry on top left
\* out.
OtherEntries(c) ==
    IF TopWas(c, "OnlyOn") THEN Pop(prev[c].v.stack) ELSE prev[c].v.stack

\* C20: a token of named weekdays right after "only on" leaves day_of_week
\* the first weekday it names and nothing else, day_of_month "?", and every
\* other entry of the stack in its place.
C20_OnlyOn ==
    \A c \in Calls :
        AfterOnlyOn(c) =>
            /\ cron[c].v.syntax.day_of_week = FirstName(Token(c), DayAbbreviations)
            /\ cron[c].v.syntax.day_of_month = "?"
            /\ Len(cron[c].v.stack) >= Len(OtherEntries(c))
            /\ SubSeq(cron[c].v.stack, 1, Len(OtherEntries(c))) = OtherEntries(c)

\* "every 5 minutes only on tuesday and monday": "only on" has pushed no
\* entry, the Day processor meets the Minute entry, clears the stack and
\* builds the list MON,TUE.
C20_ListBuilt ==
    \E c \in Calls :
        /\ input[c] = "every 5 minutes only on tuesday and monday"
        /\ AfterOnlyOn(c)
        /\ TopWas(c, "Minute")
        /\ cron[c].v.syntax.day_of_week = "MON,TUE"
        /\ Len(cron[c].v.stack) = 1
        /\ cron[c].v.stack[1].owner = "Day"

\* No step ever finds an OnlyOn entry on the stack.
C20_NeverOnStack ==
    \A c \in Calls :
        ~cron[c].none =>
            \A k \in 1..Len(cron[c].v.stack) : cron[c].v.stack[k].owner # "OnlyOn"

(***************************************************************************)
(* Spellings of the unit words                                             *)
(***************************************************************************)
\* The spellings of each unit that the scanner emits, in lower case.
Spellings ==
    [Secund |-> {"second", "seconds", "sec", "secs"},
     Minute |-> {"minute", "minutes", "min", "mins"},
     Hour   |-> {"hour", "hours", "hr", "hrs"}]

\* The spelling of each unit that the repository's tests use.
Canonical == [Secund |-> "seconds", Minute |-> "minutes", Hour |-> "hours"]

\* Call c has taken the token at cur[c], by a processor or by skipping it,
\* and is back at the head of the loop.
Consumed(c) == entry[c] = "Cron::new" /\ pc[c] = "loop" /\ cur[c] >= 1

\* C21: every spelling of a unit word is classified as the Kind of its unit
\* and leaves the Cron as the processor of that unit leaves it on the
\* canonical spelling.
C21_Spellings ==
    \A c \in Calls : \A u \in DOMAIN Spellings :
        (Consumed(c) /\ Token(c) \in Spellings[u]) =>
            /\ kind[c] = Some(u)
            /\ cron[c].v = Kind_process(u, Canonical[u], prev[c].v).cron

\* "every 2 hr": the scanner emits hr, no Kind recognises it, the token is
\* skipped and the FrequencyOnly entry of 2 stays on the stack with the hour
\* field "*".
C21_HrSkipped ==
    \E c \in Calls :
        /\ input[c] = "every 2 hr"
        /\ Consumed(c) /\ Token(c) = "hr"
        /\ kind[c] = None
        /\ cron[c] = prev[c]
        /\ cron[c].v.syntax.hour = "*"
        /\ last(cron[c].v.stack).v.owner = "FrequencyOnly"

\* C21 for every spelling but hr.
C21_SpellingsButHr ==
    \A c \in Calls : \A u \in DOMAIN Spellings :
        (Consumed(c) /\ Token(c) \in Spellings[u] \ {"hr"}) =>
            /\ kind[c] = Some(u)
            /\ cron[c].v = Kind_process(u, Canonical[u], prev[c].v).cron

(***************************************************************************)
(* str_cron_syntax on "every N minutes"                                    *)
(***************************************************************************)
\* Call c is a finished str_cron_syntax whose text held a number and a
\* minute word and nothing else the scanner knows.
EveryNMinutes(c) ==
    /\ entry[c] = "str_cron_syntax" /\ pc[c] = "done"
    /\ Len(tokens[c]) = 2
    /\ IsNumber(tokens[c][1]) /\ ~parse_i32(tokens[c][1]).none
    /\ tokens[c][2] \in Spellings["Minute"]

\* C22: str_cron_syntax on "every N minutes" returns "0/N * * * ? *", six
\* fields from the minute on, without a seconds field.
C22_EveryNMinutes ==
    \A c \in Calls :
        EveryNMinutes(c) =>
            /\ ~result[c].none /\ result[c].v.tag = "ok"
            /\ result[c].v.text = "0/" \o tokens[c][1] \o " * * * ? *"

\* "Run every 15 minutes": the seven fields are rendered, the seconds field
\* "0" first.
C22_SevenFields ==
    \E c \in Calls :
        /\ input[c] = "Run every 15 minutes"
        /\ EveryNMinutes(c)
        /\ result[c] = Some([tag |-> "ok", text |-> "0 0/15 * * * ? *"])

(***************************************************************************)
(* End of input                                                            *)
(***************************************************************************)
\* C23: a call of Cron::new that has failed either found no token at all or
\* returns the error that the processor of its current token raised on the
\* Cron of that moment; entries left on the stack after the last token never
\* make it fail.
C23_LeftoverTolerated ==
    \A c \in Calls :
        (entry[c] = "Cron::new" /\ pc[c] = "done" /\ ~result[c].none /\ result[c].v.tag # "ok") =>
            \/ tokens[c] = <<>> /\ result[c].v = Err(InvalidInput)
            \/ /\ cur[c] >= 1 /\ ~kind[c].none /\ ~prev[c].none
               /\ result[c].v = Kind_process(kind[c].v, Token(c), prev[c].v)

\* "between": the call has returned Ok with the RangeStart entry still on
\* the stack.
C23_Witness ==
    \E c \in Calls :
        /\ input[c] = "between"
        /\ entry[c] = "Cron::new" /\ Succeeded(c)
        /\ Len(result[c].v.cron.stack) = 1
        /\ result[c].v.cron.stack[1].owner = "RangeStart"

(***************************************************************************)
(* One pass over the tokens                                                *)
(***************************************************************************)
\* The steps call c can still take: two for every token not yet taken
\* (classify, then process or skip), one to return.
Remaining(c) ==
    CASE pc[c] = "new"       -> 2 * Len(run(input[c])) + 2
      [] pc[c] = "loop"      -> 2 * (Len(tokens[c]) - cur[c]) + 1
      [] pc[c] = "process"   -> 2 * (Len(tokens[c]) - cur[c]) + 2
      [] pc[c] = "to_string" -> 1
      [] OTHER               -> 0

\* C24: every step of a call uses up one of its remaining steps, so the call
\* ends; the position in the token list moves only forward, one token at a
\* time, each move handing the next token of the scanner's list to the
\* classifier, and a processor or a skip acts only on the token just taken.
C24_OnePass ==
    [][\A c \in Calls :
          /\ Remaining(c)' <= Remaining(c)
          /\ (pc'[c] # pc[c] \/ cur'[c] # cur[c] \/ cron'[c] # cron[c]) =>
                 Remaining(c)' < Remaining(c)
          /\ cur'[c] \in {cur[c], cur[c] + 1}
          /\ cur'[c] <= Len(tokens'[c])
          /\ cur'[c] = cur[c] + 1 <=> (pc[c] = "loop" /\ pc'[c] = "process")
          /\ pc[c] \in {"loop", "process", "done"} => tokens'[c] = tokens[c]
          /\ cron'[c] # cron[c] => (pc[c] \in {"new", "process"} /\ cur'[c] = cur[c])
      ]_vars

\* "between 8 and 5 minutes": the call has returned after its fifth token.
C24_Witness ==
    \E c \in Calls :
        /\ input[c] = "between 8 and 5 minutes"
        /\ entry[c] = "Cron::new" /\ Succeeded(c)
        /\ Len(tokens[c]) = 5 /\ cur[c] = 5
        /\ Remaining(c) = 0

(***************************************************************************)
(* Numbers that do not fit 32 bits                                         *)
(***************************************************************************)
\* The digits without their leading zeros.
RECURSIVE Significant(_)
Significant(digits) ==
    IF Len(digits) > 1 /\ Char(digits, 1) = "0" THEN Significant(Tail(digits)) ELSE digits

\* The decimal digits of i32::MAX.
I32MaxDigits == ToString(I32Max)

\* The number these digits write is larger than i32::MAX: more significant
\* digits, or as many and larger at the first digit that differs.
ExceedsI32(digits) ==
    \/ Len(Significant(digits)) > Len(I32MaxDigits)
    \/ /\ Len(Significant(digits)) = Len(I32MaxDigits)
       /\ \E i \in 1..Len(I32MaxDigits) :
             /\ DigitVal(Char(Significant(digits), i)) > DigitVal(Char(I32MaxDigits, i))
             /\ \A j \in 1..(i - 1) : Char(Significant(digits), j) = Char(I32MaxDigits, j)

\* The processor each of the three kinds names in its ParseToNumber.
NumberProcessor ==
    [FrequencyOnly |-> "frequency_only", FrequencyWith |-> "frequency_with",
     ClockTime |-> "clock_time"]

\* Call c has run the processor of a bare number, an ordinal or a clock
\* time whose leading digits exceed i32::MAX.
OverflowStep(c) ==
    /\ StepOk(c) \/ StepFailed(c)
    /\ kind[c].v \in DOMAIN NumberProcessor
    /\ DigitRun(Token(c), 1) # ""
    /\ ExceedsI32(DigitRun(Token(c), 1))

\* C25: a bare number, an ordinal or a clock-time hour larger than i32::MAX
\* fails with ParseToNumber raised by the processor of its kind, and the
\* call returns no Cron.
C25_Overflow ==
    \A c \in Calls :
        OverflowStep(c) =>
            /\ StepFailed(c)
            /\ RaisedBy(c, "ParseToNumber", NumberProcessor[kind[c].v])
            /\ cron[c] = None

\* "5 and 2147483648th": one more than i32::MAX in an ordinal, met while a
\* range is being closed, fails with ParseToNumber raised by frequency_with.
C25_Witness ==
    \E c \in Calls :
        /\ input[c] = "5 and 2147483648th"
        /\ OverflowStep(c) /\ StepFailed(c)
        /\ kind[c] = Some("FrequencyWith")
        /\ TopWas(c, "RangeEnd")
        /\ RaisedBy(c, "ParseToNumber", "frequency_with")

\* 2147483647 itself is accepted: the FrequencyOnly entry carries it.
C25_LargestAccepted ==
    \E c \in Calls :
        /\ input[c] = "2147483647"
        /\ StepOk(c) /\ kind[c] = Some("FrequencyOnly")
        /\ last(cron[c].v.stack).v.frequency = Some(I32Max)

(***************************************************************************)
(* Frequency tokens                                                        *)
(***************************************************************************)
\* Call c has just run the processor of a bare number or of an ordinal with
\* success.
FrequencyStep(c) == StepOk(c) /\ kind[c].v \in {"FrequencyOnly", "FrequencyWith"}

\* The value of the token: its leading digits.
FrequencyValue(c) == parse_i32(DigitRun(Token(c), 1)).v

\* The entry a frequency token of call c pushes.
FrequencyEntry(c) ==
    [Stack_builder(kind[c].v) EXCEPT
        !.frequency = Some(FrequencyValue(c)),
        !.day_of_week = IF kind[c].v = "FrequencyWith"
                        THEN Some(prev[c].v.syntax.day_of_week) ELSE None]

\* C26: a frequency token of value n stores n as frequency_start of a
\* RangeStart top or as frequency_end of a RangeEnd top without pushing,
\* else pushes one entry of its kind carrying n (FrequencyWith with the
\* day_of_week of the moment); the seven fields are never changed.
C26_Frequency ==
    \A c \in Calls :
        FrequencyStep(c) =>
            /\ cron[c].v.syntax = prev[c].v.syntax
            /\ IF TopWas(c, "RangeStart")
               THEN cron[c].v.stack =
                      [prev[c].v.stack EXCEPT ![Len(prev[c].v.stack)].frequency_start =
                                                  Some(FrequencyValue(c))]
               ELSE IF TopWas(c, "RangeEnd")
               THEN cron[c].v.stack =
                      [prev[c].v.stack EXCEPT ![Len(prev[c].v.stack)].frequency_end =
                                                  Some(FrequencyValue(c))]
               ELSE cron[c].v.stack = Append(prev[c].v.stack, FrequencyEntry(c))

\* "between 15": the number is stored in the open range and nothing is
\* pushed.
C26_Witness ==
    \E c \in Calls :
        /\ input[c] = "between 15"
        /\ FrequencyStep(c) /\ TopWas(c, "RangeStart")
        /\ Len(cron[c].v.stack) = 1
        /\ cron[c].v.stack[1].owner = "RangeStart"
        /\ cron[c].v.stack[1].frequency_start = Some(15)
        /\ cron[c].v.stack[1].frequency = None

\* "monday 3rd": the ordinal pushes a FrequencyWith entry that carries 3 and
\* the day_of_week written by monday.
C26_Snapshot ==
    \E c \in Calls :
        /\ FrequencyStep(c) /\ kind[c] = Some("FrequencyWith")
        /\ Token(c) = "3rd"
        /\ prev[c].v.syntax.day_of_week = "MON"
        /\ last(cron[c].v.stack).v.day_of_week = Some("MON")
        /\ last(cron[c].v.stack).v.frequency = Some(3)

(***************************************************************************)
(* Range-end words                                                         *)
(***************************************************************************)
\* What a range-end word makes of the entry on top of the stack.
Closed(token, old) ==
    [old EXCEPT
        !.owner = "RangeEnd",
        !.is_and_connector = (to_lowercase(token) = "and"),
        !.frequency_start = IF old.owner \in {"FrequencyOnly", "FrequencyWith"}
                            THEN old.frequency ELSE old.frequency_start,
        !.day = IF old.owner = "Day"
                THEN Some([start |-> old.day_of_week,
                           end |-> IF old.day.none THEN None ELSE old.day.v.end])
                ELSE old.day]

\* C27: a range-end word changes nothing but the top entry of the stack,
\* which becomes a RangeEnd entry (a Frequency entry with frequency_start set
\* to its frequency, a Day entry with the day start set from its day_of_week
\* snapshot); depth, lower entries and the seven fields stay, and on an empty
\* stack nothing changes at all.
C27_RangeEnd ==
    \A c \in Calls :
        (StepOk(c) /\ kind[c] = Some("RangeEnd")) =>
            /\ cron[c].v.syntax = prev[c].v.syntax
            /\ IF prev[c].v.stack = <<>> THEN cron[c] = prev[c]
               ELSE cron[c].v.stack =
                      [prev[c].v.stack EXCEPT
                          ![Len(prev[c].v.stack)] = Closed(Token(c), last(prev[c].v.stack).v)]

\* "monday through": the Day entry of monday becomes the RangeEnd entry, its
\* day start MON.
C27_Witness ==
    \E c \in Calls :
        /\ StepOk(c) /\ kind[c] = Some("RangeEnd") /\ Token(c) = "through"
        /\ TopWas(c, "Day")
        /\ Len(cron[c].v.stack) = Len(prev[c].v.stack)
        /\ last(cron[c].v.stack).v.owner = "RangeEnd"
        /\ last(cron[c].v.stack).v.day = Some([start |-> Some("MON"), end |-> None])

\* "and" as the first token: the stack is empty and stays empty.
C27_EmptyStack ==
    \E c \in Calls :
        /\ StepOk(c) /\ kind[c] = Some("RangeEnd") /\ cur[c] = 1
        /\ prev[c].v.stack = <<>> /\ cron[c] = prev[c]

(***************************************************************************)
(* The range a range-end word closes                                       *)
(***************************************************************************)
\* The entry records the start that a payload token of this kind names.
RecordsStart(e, k, token) ==
    CASE k \in {"FrequencyOnly", "FrequencyWith"} ->
             e.frequency_start = parse_i32(DigitRun(token, 1))
      [] k = "ClockTime" -> ~e.hour.none /\ ~e.hour.v.start.none
      [] k = "Day"       -> ~e.day.none /\ e.day.v.start = Some(FirstName(token, DayAbbreviations))
      [] k = "Month"     -> ~e.month.none
                              /\ e.month.v.start = Some(FirstName(token, MonthAbbreviations))
      [] k = "Year"      -> ~e.year.none /\ ~e.year.v.start.none
                              /\ ToString(e.year.v.start.v) = DigitRuns(token, 1)[1]
      [] OTHER           -> FALSE

\* The token names the start of a range: a number, an ordinal, a clock
\* time, named weekdays, named months or years.
IsPayload(token) ==
    /\ ~try_from_token(token).none
    /\ try_from_token(token).v \in {"FrequencyOnly", "FrequencyWith", "ClockTime", "Day", "Month", "Year"}
    /\ try_from_token(token).v = "Day" => Names(token, DayAbbreviations)
    /\ try_from_token(token).v = "Month" => Names(token, MonthAbbreviations)
    /\ try_from_token(token).v = "Year" => NamesYears(token)

\* Call c has just run the processor of a range-end word that came right
\* after a range-start word and the start of the range.
RangeClosed(c) ==
    /\ StepOk(c) /\ kind[c] = Some("RangeEnd") /\ cur[c] >= 3
    /\ try_from_token(tokens[c][cur[c] - 2]) = Some("RangeStart")
    /\ IsPayload(tokens[c][cur[c] - 1])

\* The stack the range-start word found.
BeforeRange(c) == Fold(SubSeq(tokens[c], 1, cur[c] - 3), 1, Cron_default).cron.stack

\* C28: the entry a range-end word turns into RangeEnd, right after a
\* range-start word and the start of the range, is the entry the range-start
\* word pushed, on top of what the stack held before, and it carries the
\* start that was recorded.
C28_SameEntry ==
    \A c \in Calls :
        RangeClosed(c) =>
            /\ Len(prev[c].v.stack) = Len(BeforeRange(c)) + 1
            /\ TopWas(c, "RangeStart")
            /\ RecordsStart(last(prev[c].v.stack).v,
                            try_from_token(tokens[c][cur[c] - 1]).v, tokens[c][cur[c] - 1])
            /\ cron[c].v.stack = Append(BeforeRange(c), Closed(Token(c), last(prev[c].v.stack).v))

\* "starting may to": the Month processor records MAY in the RangeStart
\* entry and pops it, so the range-end word finds an empty stack.
C28_MonthPopped ==
    \E c \in Calls :
        /\ input[c] = "starting may to"
        /\ RangeClosed(c)
        /\ prev[c].v.stack = <<>>
        /\ cron[c].v.stack = <<>>

\* C28 for every start of a range but named months.
C28_SameEntryButMonth ==
    \A c \in Calls :
        (RangeClosed(c) /\ try_from_token(tokens[c][cur[c] - 1]) # Some("Month")) =>
            /\ Len(prev[c].v.stack) = Len(BeforeRange(c)) + 1
            /\ TopWas(c, "RangeStart")
            /\ RecordsStart(last(prev[c].v.stack).v,
                            try_from_token(tokens[c][cur[c] - 1]).v, tokens[c][cur[c] - 1])
            /\ cron[c].v.stack = Append(BeforeRange(c), Closed(Token(c), last(prev[c].v.stack).v))

(***************************************************************************)
(* The stack after a pending frequency is resolved                         *)
(***************************************************************************)
\* The ways a frequency n is written into a field.
Resolutions(n) == {ToString(n), "0/" \o ToString(n), "*/" \o ToString(n)}

\* Call c has just run the processor of a unit, day, month or year token on
\* a stack that held a single FrequencyOnly or FrequencyWith entry, and the
\* processor has written the frequency of that entry into a field.
ResolvedOnly(c) ==
    /\ StepOk(c)
    /\ kind[c].v \in {"Secund", "Minute", "Hour", "Day", "Month", "Year"}
    /\ Len(prev[c].v.stack) = 1
    /\ prev[c].v.stack[1].owner \in {"FrequencyOnly", "FrequencyWith"}
    /\ ~prev[c].v.stack[1].frequency.none
    /\ \E f \in Fields :
          /\ cron[c].v.syntax[f] # prev[c].v.syntax[f]
          /\ cron[c].v.syntax[f] \in Resolutions(prev[c].v.stack[1].frequency.v)

\* C29 as stated: once the only entry, a pending frequency, is resolved,
\* the stack is empty.
C29_StackEmpty ==
    \A c \in Calls : ResolvedOnly(c) => cron[c].v.stack = <<>>

\* C29 (amended): once the only entry, a pending frequency, is resolved, the
\* stack is not empty: the pending entry is gone and the stack holds the
\* entry the processor has pushed, and no other.
C29_OwnEntry ==
    \A c \in Calls :
        ResolvedOnly(c) =>
            /\ Len(cron[c].v.stack) = 1
            /\ cron[c].v.stack[1].owner \in {"Secund", "Minute", "Day", "Month"}
            /\ cron[c].v.stack[1].frequency.none

\* "every 15 minutes": the FrequencyOnly entry of 15 is gone and the Minute
\* entry is the only one.
C29_Witness ==
    \E c \in Calls :
        /\ ResolvedOnly(c)
        /\ Token(c) = "minutes"
        /\ prev[c].v.stack[1].frequency = Some(15)
        /\ cron[c].v.syntax.min = "0/15"
        /\ Len(cron[c].v.stack) = 1
        /\ cron[c].v.stack[1].owner = "Minute"

(***************************************************************************)
(* A weekday list starts the stack afresh                                  *)
(***************************************************************************)
\* Call c has just run the day processor on a token that names weekdays,
\* the stack having been empty or its top an entry other than RangeStart,
\* RangeEnd and OnlyOn.
WeekdaysOutsideRange(c) ==
    /\ ListStep(c, "Day", DayAbbreviations)
    /\ ~is_match(RE_DAY, Token(c))
    /\ ~TopWas(c, "OnlyOn")

\* C30: a weekday token processed on a stack whose top is not RangeStart,
\* RangeEnd or OnlyOn discards every entry of the stack, sets day_of_month
\* to "?" and leaves on the stack a single entry, of kind Day, whose
\* day_of_week is the day_of_week field just written.
C30_FreshDayEntry ==
    \A c \in Calls :
        WeekdaysOutsideRange(c) =>
            /\ cron[c].v.syntax.day_of_month = "?"
            /\ Len(cron[c].v.stack) = 1
            /\ cron[c].v.stack[1].owner = "Day"
            /\ cron[c].v.stack[1].day_of_week = Some(cron[c].v.syntax.day_of_week)
            /\ cron[c].v.stack[1] =
                   [Stack_builder("Day") EXCEPT !.day_of_week = Some(cron[c].v.syntax.day_of_week)]

\* "6:00 pm" then "Monday": the ClockTime entry is gone and the Day entry
\* records MON.
C30_Witness ==
    \E c \in Calls :
        /\ WeekdaysOutsideRange(c)
        /\ Token(c) = "Monday"
        /\ TopWas(c, "ClockTime")
        /\ prev[c].v.syntax.day_of_month # "?"
        /\ cron[c].v.syntax.day_of_week = "MON"
        /\ cron[c].v.syntax.day_of_month = "?"
        /\ Len(cron[c].v.stack) = 1
        /\ cron[c].v.stack[1].owner = "Day"
        /\ cron[c].v.stack[1].day_of_week = Some("MON")

(***************************************************************************)
(* The classifier                                                          *)
(***************************************************************************)
\* The Kinds in the order of the claim.
PriorityOrder ==
    <<"FrequencyWith", "FrequencyOnly", "ClockTime", "Day", "Secund", "Minute",
      "Hour", "Month", "Year", "RangeStart", "RangeEnd", "OnlyOn">>

\* The first Kind from position i of the order on whose recognizer matches
\* the token.
RECURSIVE FirstFrom(_, _)
FirstFrom(token, i) ==
    IF i > Len(PriorityOrder) THEN None
    ELSE IF Recognizes(PriorityOrder[i], token) THEN Some(PriorityOrder[i])
    ELSE FirstFrom(token, i + 1)

\* Call c has classified its token number cur[c].
Classified(c) == entry[c] = "Cron::new" /\ cur[c] >= 1 /\ pc[c] \in {"process", "loop", "done"}

\* The token is made of digits only.
DigitsOnly(token) == token # "" /\ \A i \in 1..Len(token) : IsDigit(SubSeq(token, i, i))

\* C31: the Kind of a token is the first Kind of the order FrequencyWith,
\* FrequencyOnly, ClockTime, Day, Secund, Minute, Hour, Month, Year,
\* RangeStart, RangeEnd, OnlyOn whose recognizer matches it, and none when no
\* recognizer matches; a token of digits only is FrequencyOnly, "weekend" is
\* Day and "october" is Month.
C31_FirstMatch ==
    \A c \in Calls :
        Classified(c) =>
            /\ kind[c] = FirstFrom(Token(c), 1)
            /\ DigitsOnly(Token(c)) => kind[c] = Some("FrequencyOnly")
            /\ Token(c) = "weekend" => kind[c] = Some("Day")
            /\ Token(c) = "october" => kind[c] = Some("Month")

\* "october" matches the recognizers of Month and of RangeEnd and is
\* classified Month.
C31_Witness ==
    \E c \in Calls :
        /\ Classified(c)
        /\ Token(c) = "october"
        /\ Recognizes("Month", Token(c)) /\ Recognizes("RangeEnd", Token(c))
        /\ kind[c] = Some("Month")

(***************************************************************************)
(* Tokens of no Kind                                                       *)
(***************************************************************************)
\* No recognizer matches the token.
Unclassifiable(token) == \A i \in 1..Len(PriorityOrder) : ~Recognizes(PriorityOrder[i], token)

\* The call has tokens and none of them is of any Kind.
OnlyUnclassifiable(c) ==
    tokens[c] # <<>> /\ \A i \in 1..Len(tokens[c]) : Unclassifiable(tokens[c][i])

\* The loop of call c holds a token of no Kind.
HoldsUnclassifiable(c) ==
    entry[c] = "Cron::new" /\ pc[c] = "process" /\ Unclassifiable(Token(c))

C32_LoneHr ==
    \E c \in Calls :
        /\ input[c] = "hr" /\ tokens[c] = <<"hr">>
        /\ OnlyUnclassifiable(c)
        /\ Succeeded(c)
        /\ result[c].v.text = "0 * * * * ? *"

(***************************************************************************)
(* The fields a processor writes                                           *)
(***************************************************************************)
\* The fields the processor of a Kind may write, for the Kinds of C33.
OwnFields(k) ==
    CASE k = "Secund" -> {"seconds"}
      [] k = "Minute" -> {"min"}
      [] k = "Hour" -> {"hour"}
      [] k = "ClockTime" -> {"min", "hour"}
      [] k = "Year" -> {"year"}
      [] k \in {"RangeStart", "OnlyOn"} -> {}
      [] OTHER -> Fields

\* The fields in which two Crons differ.
Differing(old, new) == {f \in Fields : old.syntax[f] # new.syntax[f]}

\* C33: the processors of Secund, Minute, Hour, ClockTime and Year change
\* no field but their own (seconds; minute; hour; minute and hour; year),
\* and those of RangeStart and OnlyOn change no field, whatever the stack
\* holds.
C33_OwnFields ==
    \A c \in Calls :
        StepOk(c) => Differing(prev[c].v, cron[c].v) \subseteq OwnFields(kind[c].v)

\* "every 15 seconds": the seconds processor resolves the FrequencyOnly
\* entry of 15 into the seconds field and changes no other field.
C33_Witness ==
    \E c \in Calls :
        /\ StepOk(c)
        /\ kind[c] = Some("Secund")
        /\ TopWas(c, "FrequencyOnly")
        /\ cron[c].v.syntax.seconds = "0/15"
        /\ Differing(prev[c].v, cron[c].v) = {"seconds"}

(***************************************************************************)
(* Tokens that record the start of an open range                           *)
(***************************************************************************)
\* Call c has just run, on top of a RangeStart entry, the processor of a
\* clock time, of named weekdays, of named months, of years or of a
\* minute or hour unit word.
StartRecorded(c) ==
    /\ StepOk(c)
    /\ TopWas(c, "RangeStart")
    /\ \/ kind[c].v \in {"ClockTime", "Year", "Minute", "Hour"}
       \/ kind[c].v = "Day" /\ ~is_match(RE_DAY, Token(c))
       \/ kind[c].v = "Month" /\ ~is_match(RE_MONTH, Token(c))

\* C34: a token that only records the start of an open range leaves the
\* seven fields as they were.
C34_StartOnly ==
    \A c \in Calls : StartRecorded(c) => Differing(prev[c].v, cron[c].v) = {}

\* "between monday": the weekday is recorded in the RangeStart entry and
\* day_of_week is left empty.
C34_DayCleared ==
    \E c \in Calls :
        /\ StartRecorded(c)
        /\ kind[c] = Some("Day")
        /\ Token(c) = "monday"
        /\ last(cron[c].v.stack).v.owner = "RangeStart"
        /\ last(cron[c].v.stack).v.day = Some(StartEnd(Some("MON"), None))
        /\ prev[c].v.syntax.day_of_week = "?"
        /\ cron[c].v.syntax.day_of_week = ""

\* The tokens of C34 other than named weekdays and named months leave the
\* fields as they were, and those two change their own field only.
C34_StartOnlyButNames ==
    \A c \in Calls :
        StartRecorded(c) =>
            Differing(prev[c].v, cron[c].v)
                \subseteq (IF kind[c].v = "Day" THEN {"day_of_week"}
                           ELSE IF kind[c].v = "Month" THEN {"month"} ELSE {})

(***************************************************************************)
(* Clock times inside a range                                              *)
(***************************************************************************)
\* Call c has just run the clock-time processor on top of a RangeStart or
\* RangeEnd entry.
ClockInRange(c) ==
    /\ StepOk(c) /\ kind[c] = Some("ClockTime")
    /\ TopWas(c, "RangeStart") \/ TopWas(c, "RangeEnd")

\* C35: a clock time processed on top of a RangeStart or RangeEnd entry
\* writes at most the hour field and never the minute field.
C35_HourOnly ==
    \A c \in Calls :
        ClockInRange(c) =>
            /\ Differing(prev[c].v, cron[c].v) \subseteq {"hour"}
            /\ cron[c].v.syntax.min = prev[c].v.syntax.min

\* "every 5 minutes between 8:30 am and 5:45 pm": the closing time writes
\* the hour range 8-17 and the minute field keeps 0/5.
C35_Witness ==
    \E c \in Calls :
        /\ ClockInRange(c)
        /\ Token(c) = "5:45 pm"
        /\ TopWas(c, "RangeEnd")
        /\ prev[c].v.syntax.min = "0/5"
        /\ cron[c].v.syntax.min = "0/5"
        /\ cron[c].v.syntax.hour = "8-17"

(***************************************************************************)
(* The hour of a clock time                                                *)
(***************************************************************************)
\* The hours of a day, as text, and the ranges between two of them.
DayHours == {ToString(h) : h \in 0..23}

DayHourRanges == {ToString(a) \o "-" \o ToString(b) : a, b \in 0..23}

\* Call c has just run the clock-time processor with success.
ClockDone(c) == StepOk(c) /\ kind[c] = Some("ClockTime")

\* The token carries "am" or "pm", in either case.
HasAmPm(token) == contains(to_lowercase(token), "am") \/ contains(to_lowercase(token), "pm")

\* The hour field and the hour of the top entry after a clock-time step are
\* hours of a day.
HourOfDay(c) ==
    /\ cron[c].v.syntax.hour # prev[c].v.syntax.hour =>
           cron[c].v.syntax.hour \in DayHours \cup DayHourRanges
    /\ (cron[c].v.stack # <<>>
          /\ last(cron[c].v.stack).v.owner \in {"ClockTime", "RangeStart"}
          /\ ~last(cron[c].v.stack).v.hour.none
          /\ ~last(cron[c].v.stack).v.hour.v.start.none) =>
           last(cron[c].v.stack).v.hour.v.start.v \in 0..23

\* C36: every clock-time token processed without error yields an hour in
\* 0..23: no hour of 24 or more reaches the hour field or a clock-time
\* range.
C36_HourInRange ==
    \A c \in Calls : ClockDone(c) => HourOfDay(c)

\* "at 25:00": the call goes on with the hour field "25".
C36_Hour25 ==
    \E c \in Calls :
        /\ ClockDone(c)
        /\ Token(c) = "25:00"
        /\ cron[c].v.syntax.hour = "25"
        /\ last(cron[c].v.stack).v.hour = Some(StartEnd(Some(25), None))

\* Clock times that carry am or pm, and noon and midnight, yield an hour in
\* 0..23.
C36_HourInRangeAmPm ==
    \A c \in Calls :
        (ClockDone(c) /\ (HasAmPm(Token(c)) \/ is_match(RE_NOON_MIDNIGHT, Token(c)))) =>
            HourOfDay(c)

(***************************************************************************)
(* Panics                                                                  *)
(***************************************************************************)
\* The token carries "pm", in either case.
HasPm(token) == contains(to_lowercase(token), "pm")

\* C37: no call ends in a panic: neither the "handle later" branch of the
\* frequency processor nor the unwrap of the clock-time processor is ever
\* taken, and a clock time with pm that is processed without error has an
\* hour of at most 23, the 12 being added to hours below 12 only.
C37_NoPanic ==
    \A c \in Calls :
        /\ ~result[c].none => result[c].v.tag \in {"ok", "err"}
        /\ (ClockDone(c) /\ HasPm(Token(c))) => HourOfDay(c)

\* "15 15": the second number finds the FrequencyOnly entry of the first on
\* the stack and is pushed on top of it.
C37_Witness ==
    \E c \in Calls :
        /\ StepOk(c) /\ kind[c] = Some("FrequencyOnly")
        /\ TopWas(c, "FrequencyOnly")
        /\ Len(cron[c].v.stack) = 2
        /\ last(cron[c].v.stack).v.frequency = Some(15)
        /\ result[c].none

\* "between 8:30 am and 5:45 pm": the closing time finds the hour of the
\* opening one in the RangeEnd entry; 12 has been added to 5.
C37_ClosingTime ==
    \E c \in Calls :
        /\ ClockDone(c) /\ HasPm(Token(c))
        /\ TopWas(c, "RangeEnd")
        /\ ~last(prev[c].v.stack).v.hour.none
        /\ cron[c].v.syntax.hour = "8-17"

(***************************************************************************)
(* The errors a call can return                                            *)
(***************************************************************************)
\* The call has returned an error.
Failed(c) == ~result[c].none /\ result[c].v.tag = "err"

\* C38: a call returns no error but InvalidInput, ParseToNumber (for digits
\* that write a number larger than a 32-bit integer holds) and the
\* IncorrectValue of the clock-time and year processors; Capture and the
\* IncorrectValue of the day and month processors are never returned.
C38_Errors ==
    \A c \in Calls :
        Failed(c) =>
            \/ result[c].v.err = InvalidInput
            \/ /\ result[c].v.err.kind = "ParseToNumber"
               /\ ExceedsI32(result[c].v.err.value)
            \/ /\ result[c].v.err.kind = "IncorrectValue"
               /\ result[c].v.err.state \in {"clock_time", "year"}

\* "3rd 20199 and 20200": the ordinal has been routed to frequency_with,
\* which found its numeric prefix, and the call fails in the year processor
\* with IncorrectValue.
C38_Witness ==
    \E c \in Calls :
        /\ Failed(c)
        /\ cur[c] = 2
        /\ try_from_token(tokens[c][1]) = Some("FrequencyWith")
        /\ kind[c] = Some("Year")
        /\ result[c].v.err.kind = "IncorrectValue"
        /\ result[c].v.err.state = "year"

(***************************************************************************)
(* The owners of the stack entries                                         *)
(***************************************************************************)
\* The owners an entry is created with.
CreatedOwners ==
    {"FrequencyWith", "FrequencyOnly", "ClockTime", "Day", "Secund", "Minute",
     "Month", "Year", "RangeStart"}

\* The owner of the entry the processor of a Kind pushes: the Hour processor
\* pushes its entry with owner Minute.
PushedAs(k) == IF k = "Hour" THEN "Minute" ELSE k

\* Entry number i of the stack the step of call c has left is the entry
\* that was there before, with its owner; or it is that entry turned into
\* RangeEnd by a range-end word; or it is the top entry, created by the
\* processor of the step with one of the owners entries are created with.
EntryAccounted(c, i) ==
    LET old == prev[c].v.stack
        new == cron[c].v.stack
    IN  \/ i <= Len(old) /\ new[i].owner = old[i].owner
        \/ /\ i = Len(old) /\ Len(new) = Len(old)
           /\ kind[c] = Some("RangeEnd")
           /\ new[i].owner = "RangeEnd"
        \/ /\ i = Len(new)
           /\ kind[c].v \notin {"RangeEnd", "OnlyOn"}
           /\ new[i].owner = PushedAs(kind[c].v)
           /\ new[i].owner \in CreatedOwners

\* C39: no stack entry has owner Hour or OnlyOn: an entry is created with
\* owner FrequencyWith, FrequencyOnly, ClockTime, Day, Secund, Minute,
\* Month, Year or RangeStart (the Hour processor creates its entry with
\* owner Minute, OnlyOn creates none), and the owner of an existing entry
\* changes to RangeEnd only.
C39_Owners ==
    \A c \in Calls :
        /\ ~cron[c].none =>
               \A i \in 1..Len(cron[c].v.stack) :
                   cron[c].v.stack[i].owner \in CreatedOwners \cup {"RangeEnd"}
        /\ StepOk(c) =>
               \A i \in 1..Len(cron[c].v.stack) : EntryAccounted(c, i)

\* "Run every 6 hours": the Hour processor has replaced the FrequencyOnly
\* entry by an entry of owner Minute that carries the hour.
C39_Witness ==
    \E c \in Calls :
        /\ StepOk(c) /\ kind[c] = Some("Hour")
        /\ TopWas(c, "FrequencyOnly")
        /\ Len(cron[c].v.stack) = 1
        /\ cron[c].v.stack[1].owner = "Minute"
        /\ cron[c].v.stack[1].hour = Some(StartEnd(Some(6), None))

\* "monday only on weekend": the only-on words have left the stack as it
\* was.
C39_OnlyOnPushesNothing ==
    \E c \in Calls :
        /\ StepOk(c) /\ kind[c] = Some("OnlyOn")
        /\ prev[c].v.stack # <<>>
        /\ cron[c].v.stack = prev[c].v.stack

====
